---- MODULE Spec2Model ----
(***************************************************************************)
(* grid-x/aws-auto-snapshot: the EC2 (EBS) snapshot manager, the Lightsail *)
(* snapshot manager and the DynamoDB snapshot-info datastore.              *)
(*                                                                         *)
(* Representation.                                                         *)
(*   - A Go string is a sequence of one-character strings.                 *)
(*   - A Go pointer to a string or a time is a sequence of length 0 (nil) *)
(*     or 1 (the value pointed to).                                        *)
(*   - A time.Time and a time.Duration are records [h, s, ns]: whole       *)
(*     hours, seconds within the hour (0..3599) and nanoseconds within the *)
(*     second (0..999999999).  The value is h*3600e9 + s*1e9 + ns          *)
(*     nanoseconds; a Time counts from the Unix epoch.  The split keeps    *)
(*     every component inside TLC's integers while the whole keeps the     *)
(*     64-bit nanosecond range of time.Duration.                           *)
(***************************************************************************)
EXTENDS Integers, Sequences, FiniteSets, TLC

(***************************************************************************)
(* time.Time / time.Duration arithmetic                                    *)
(***************************************************************************)
SecondsPerHour == 3600

NanosPerSecond == 1000000000

Norm(h, s, ns) ==
    LET s2 == s + (ns \div NanosPerSecond)
    IN  [h  |-> h + (s2 \div SecondsPerHour),
         s  |-> s2 % SecondsPerHour,
         ns |-> ns % NanosPerSecond]

Hours(n) == [h |-> n, s |-> 0, ns |-> 0]

Seconds(n) == Norm(0, n, 0)

Nanos(n) == Norm(0, 0, n)

Plus(a, b) == Norm(a.h + b.h, a.s + b.s, a.ns + b.ns)

Minus(a, b) == Norm(a.h - b.h, a.s - b.s, a.ns - b.ns)

\* time.Time.Before / After, and the order of Durations
Before(a, b) ==
    \/ a.h < b.h
    \/ a.h = b.h /\ a.s < b.s
    \/ a.h = b.h /\ a.s = b.s /\ a.ns < b.ns

After(a, b) == Before(b, a)

\* math.MaxInt64 and math.MinInt64 nanoseconds, and 2^64 nanoseconds
MaxInt64 == [h |-> 2562047, s |-> 2836, ns |-> 854775807]

MinInt64 == Norm(-2562047, -2836, -854775808)

TwoTo64 == [h |-> 5124095, s |-> 2073, ns |-> 709551616]

\* two's-complement wrap-around of an int64 count of nanoseconds
RECURSIVE Wrap64(_)
Wrap64(d) ==
    IF Before(MaxInt64, d) THEN Wrap64(Minus(d, TwoTo64))
    ELSE IF Before(d, MinInt64) THEN Wrap64(Plus(d, TwoTo64))
    ELSE d

\* time.Duration(n) * time.Hour, in int64
MulHour(n) == Wrap64(Hours(n))

\* a time at the precision of a second
TruncSecond(t) == [t EXCEPT !.ns = 0]

\* time.Time.Add
Add(t, d) == Plus(t, d)

\* time.Time.Unix: the whole seconds since the epoch, as [h, s] (h hours
\* and s seconds); the nanoseconds are dropped
Unix(t) == [h |-> t.h, s |-> t.s]

\* time.Unix(sec, 0)
FromUnix(sec) == [h |-> sec.h, s |-> sec.s, ns |-> 0]

\* the order of int64 counts of seconds
SecLeq(a, b) == a.h < b.h \/ (a.h = b.h /\ a.s <= b.s)

(***************************************************************************)
(* strings                                                                 *)
(***************************************************************************)
UpperLetters ==
    <<"A","B","C","D","E","F","G","H","I","J","K","L","M",
      "N","O","P","Q","R","S","T","U","V","W","X","Y","Z">>

LowerLetters ==
    <<"a","b","c","d","e","f","g","h","i","j","k","l","m",
      "n","o","p","q","r","s","t","u","v","w","x","y","z">>

ToLowerChar(c) ==
    IF \E i \in 1..26 : UpperLetters[i] = c
    THEN LowerLetters[CHOOSE i \in 1..26 : UpperLetters[i] = c]
    ELSE c

\* strings.ToLower
ToLower(str) == [i \in 1..Len(str) |-> ToLowerChar(str[i])]

\* strings.HasSuffix
HasSuffix(str, suf) ==
    /\ Len(str) >= Len(suf)
    /\ SubSeq(str, Len(str) - Len(suf) + 1, Len(str)) = suf

Digits == <<"0","1","2","3","4","5","6","7","8","9">>

IsDigit(c) == \E i \in 1..10 : Digits[i] = c

DigitValue(c) == (CHOOSE i \in 1..10 : Digits[i] = c) - 1

RECURSIVE DecimalValue(_)
DecimalValue(ds) ==
    IF ds = <<>> THEN 0
    ELSE 10 * DecimalValue(SubSeq(ds, 1, Len(ds) - 1)) + DigitValue(ds[Len(ds)])

\* strconv.ParseInt(str, 10, 64): [err, val].  A run of more than 19 digits
\* that does not start with 0 is outside int64 (a range error).
ParseInt(str) ==
    LET signed == str # <<>> /\ str[1] \in {"+", "-"}
        ds     == IF signed THEN Tail(str) ELSE str
    IN  IF ds = <<>> \/ \E i \in 1..Len(ds) : ~IsDigit(ds[i])
        THEN [err |-> "syntax", val |-> 0]
        ELSE IF Len(ds) > 19 /\ ds[1] # "0"
        THEN [err |-> "range", val |-> 0]
        ELSE [err |-> "nil",
              val |-> IF signed /\ str[1] = "-"
                      THEN 0 - DecimalValue(ds) ELSE DecimalValue(ds)]

\* A tag value is a string: either the characters of an arbitrary text, or the
\* text that Format(time.RFC3339) writes for an instant (second precision).
Text(chars) == [chars |-> chars]

IsStamp(v) == "rfc3339" \in DOMAIN v

\* time.Time.Format(time.RFC3339): the layout has no fractional seconds
FormatRFC3339(t) == [rfc3339 |-> [h |-> t.h, s |-> t.s]]

\* time.Parse(time.RFC3339, v): [err, t]
ParseRFC3339(v) ==
    IF IsStamp(v)
    THEN [err |-> FALSE, t |-> [h |-> v.rfc3339.h, s |-> v.rfc3339.s, ns |-> 0]]
    ELSE [err |-> TRUE, t |-> Hours(0)]

\* strconv.ParseInt of a tag value
ParseIntValue(v) ==
    IF IsStamp(v) THEN [err |-> "syntax", val |-> 0] ELSE ParseInt(v.chars)

(***************************************************************************)
(* pkg/snapshot/ec2: constants and the manager's configuration             *)
(***************************************************************************)
defaultBackupTag == <<"b","a","c","k","u","p">>

defaultRetentionTag == <<"r","e","t","e","n","t","i","o","n">>

defaultSnapshotSuffix == <<"a","u","t","o","-","s","n","a","p","s","h","o","t">>

defaultDeleteAfterTag == <<"_","D","E","L","E","T","E","_","A","F","T","E","R">>

defaultRetentionDays == 7

\* NewSnapshotManager(client) with the options main passes: the flags'
\* defaults for the retention and the backup tag
smgr ==
    [suffix         |-> defaultSnapshotSuffix,
     retentionTag   |-> defaultRetentionTag,
     backupTag      |-> defaultBackupTag,
     deleteAfterTag |-> defaultDeleteAfterTag]

nameTag == <<"n","a","m","e">>

NIL == <<>>

Ptr(x) == <<x>>

Tag(k, v) == [Key |-> k, Value |-> v]

(***************************************************************************)
(* Bounds of the model                                                     *)
(***************************************************************************)
\* calls of Snapshot or Prune in one behaviour
MaxCalls == 2

\* items in one page of a listing response
PageSize == 1

\* retention tags on the volume under study (besides its backup tag)
MaxTags == 2

\* snapshots that exist before the first call
MaxSnapshots == 2

\* calls of the datastore in one behaviour
MaxDbCalls == 3

(***************************************************************************)
(* The state                                                               *)
(***************************************************************************)
VARIABLES
    now,            \* the wall clock, what time.Now() returns
    ec2Volumes,     \* the account's EBS volumes, in listing order
    ec2Snapshots,   \* the account's EBS snapshots, in listing order
    nextId,         \* the ID the provider gives the next snapshot
    calls,          \* how many calls of Snapshot and Prune were started
    pc,             \* "idle", or the loop the manager is in
    volumes,        \* Snapshot: the result of fetchVolumes
    vi,             \* Snapshot: index of the next volume
    snaps,          \* Prune: the result of fetchSnapshots
    si,             \* Prune: index of the next snapshot
    reqs,           \* the requests the current (or last) call has sent
    seen,           \* Prune: the snapshots examined so far, with the clock
    ret,            \* what the last call returned: "none", "nil", "err"
    ec2Made         \* the snapshots that calls of Snapshot created, each
                    \* with the clock reading and the days of its volume,
                    \* and whether it was tagged

ec2vars ==
    <<now, ec2Volumes, ec2Snapshots, nextId, calls, pc,
      volumes, vi, snaps, si, reqs, seen, ret, ec2Made>>

\* pkg/snapshot/lightsail
VARIABLES
    lsInstance,     \* smgr.instance
    lsRetention,    \* smgr.retention
    lsSnapshots,    \* the account's instance snapshots, in listing order
    lsCalls,        \* how many calls of Snapshot and Prune were started
    lsPc,           \* "idle", or "prune": in the second loop of Prune
    lsSnaps,        \* Prune: the local snapshots
    lsI,            \* Prune: index of the next element of snapshots
    lsReqs,         \* the requests the current (or last) call has sent
    lsListed,       \* Prune: the snapshots of the listing responses
    lsSeen,         \* Prune: the snapshots the second loop has examined
    lsRet,          \* what the last call returned
    lsMade          \* the snapshots that calls of Snapshot created, each
                    \* with the clock reading and smgr.retention of the call

lsvars ==
    <<lsInstance, lsRetention, lsSnapshots, lsCalls, lsPc, lsSnaps, lsI, lsReqs,
      lsListed, lsSeen, lsRet, lsMade>>

\* pkg/datastore/dynamodb
VARIABLES
    dbDs,           \* what New returned: [ds, err]; err is "none" before New
    dbTable,        \* the items of the table
    dbCalls,        \* how many calls of the datastore were made
    dbLog,          \* the calls that changed the table, with their argument
    dbLast,         \* the last call: its argument, clock and result
    putItemsSent,   \* the counters of the requests sent
    queriesSent,
    deletesSent

dbvars ==
    <<dbDs, dbTable, dbCalls, dbLog, dbLast, putItemsSent, queriesSent,
      deletesSent>>

\* cmd/snapshotter, command "restore ebs"
VARIABLES
    rsFlags,        \* the flags of the command line, as kingpin parsed them
    rsPc,           \* "none", "parsed", "restore" or "exit": where main is
    rsSnapshot,     \* main's local snapshot
    rsReqs,         \* the requests the run has sent, in order
    rsExit,         \* "none", "fatal" (logger.Fatal: exit status 1) or "return"
    rsOut           \* what Run returned: [volumeID, err]

rsvars == <<rsFlags, rsPc, rsSnapshot, rsReqs, rsExit, rsOut>>

\* cmd/snapshotter, commands "snapshot ebs" and "snapshot lightsail": the
\* loop over snaps
VARIABLES
    mainSnaps,      \* main's snaps: the managers, in order
    mainI,          \* the index in snaps of the manager s of the loop
    mainPc,         \* "none", or where the loop's body is: "snapshot",
                    \* "in-snapshot", "prune", "in-prune", "next", "return"
    mainLog,        \* the calls of Snapshot and Prune that main made, in
                    \* order, with what they returned
    completionTime, \* the value of the gauge completionTime
    pushed          \* the pushes to the pushgateway, in order, with the
                    \* value of the gauge they carried

mainvars == <<mainSnaps, mainI, mainPc, mainLog, completionTime, pushed>>

vars == <<ec2vars, lsvars, dbvars, rsvars, mainvars>>

(***************************************************************************)
(* The provider: paged listings with the tag-key filter                    *)
(***************************************************************************)
HasTagKey(tags, keys) ==
    \E i \in 1..Len(tags) : tags[i].Key # NIL /\ tags[i].Key[1] \in keys

NumPages(items) ==
    IF Len(items) = 0 THEN 1 ELSE (Len(items) + PageSize - 1) \div PageSize

\* the response to the request for page p: its items and the next token
Page(items, p) ==
    LET last == IF p * PageSize < Len(items) THEN p * PageSize ELSE Len(items)
    IN  [Items     |-> SubSeq(items, (p - 1) * PageSize + 1, last),
         NextToken |-> IF p * PageSize < Len(items) THEN Ptr(p + 1) ELSE NIL]

\* DescribeVolumes with Filters tag-key = {backupTag, ToLower(backupTag)}
DescribeVolumes(p) ==
    Page(SelectSeq(ec2Volumes,
                   LAMBDA v : HasTagKey(v.Tags,
                       {smgr.backupTag, ToLower(smgr.backupTag)})), p)

\* DescribeSnapshots with Filters tag-key = {deleteAfterTag}
DescribeSnapshots(p) ==
    Page(SelectSeq(ec2Snapshots,
                   LAMBDA sn : HasTagKey(sn.Tags, {smgr.deleteAfterTag})), p)

\* a slip in the loop: the next-page token is not followed
fetchVolumes_firstPage(p, failAt, result, pages) ==
    IF p = failAt
    THEN [err |-> TRUE, result |-> <<>>, pages |-> Append(pages, p)]
    ELSE LET resp == DescribeVolumes(p)
             kept == SelectSeq(resp.Items, LAMBDA v : v.VolumeId # NIL)
         IN  [err |-> FALSE, result |-> result \o kept,
              pages |-> Append(pages, p)]

\* fetchVolumes: the loop from the page p on; failAt is the page whose request
\* errors (0: none).  [err, result, pages]: pages lists the pages requested.
RECURSIVE fetchVolumes(_, _, _, _)
fetchVolumes(p, failAt, result, pages) ==
    IF p = failAt
    THEN [err |-> TRUE, result |-> <<>>, pages |-> Append(pages, p)]
    ELSE LET resp == DescribeVolumes(p)
             kept == SelectSeq(resp.Items, LAMBDA v : v.VolumeId # NIL)
         IN  IF resp.NextToken = NIL
             THEN [err |-> FALSE, result |-> result \o kept,
                   pages |-> Append(pages, p)]
             ELSE fetchVolumes(resp.NextToken[1], failAt, result \o kept,
                               Append(pages, p))

\* a slip in the loop: a page whose request errors ends the listing as if
\* it were the last page
RECURSIVE fetchSnapshots_ignoresError(_, _, _, _)
fetchSnapshots_ignoresError(p, failAt, result, pages) ==
    IF p = failAt
    THEN [err |-> FALSE, result |-> result, pages |-> Append(pages, p)]
    ELSE LET resp == DescribeSnapshots(p)
             kept == SelectSeq(resp.Items, LAMBDA sn : sn.SnapshotId # NIL)
         IN  IF resp.NextToken = NIL
             THEN [err |-> FALSE, result |-> result \o kept,
                   pages |-> Append(pages, p)]
             ELSE fetchSnapshots_ignoresError(resp.NextToken[1], failAt,
                                              result \o kept, Append(pages, p))

\* fetchSnapshots: the same loop over DescribeSnapshots
RECURSIVE fetchSnapshots(_, _, _, _)
fetchSnapshots(p, failAt, result, pages) ==
    IF p = failAt
    THEN [err |-> TRUE, result |-> <<>>, pages |-> Append(pages, p)]
    ELSE LET resp == DescribeSnapshots(p)
             kept == SelectSeq(resp.Items, LAMBDA sn : sn.SnapshotId # NIL)
         IN  IF resp.NextToken = NIL
             THEN [err |-> FALSE, result |-> result \o kept,
                   pages |-> Append(pages, p)]
             ELSE fetchSnapshots(resp.NextToken[1], failAt, result \o kept,
                                 Append(pages, p))

(***************************************************************************)
(* SnapshotManager.Snapshot                                                *)
(***************************************************************************)
\* a slip in the loop: no fall back to the default on a parse failure
RECURSIVE retentionDays_noFallback(_)
retentionDays_noFallback(tags) ==
    IF tags = <<>> THEN 0
    ELSE LET tag == Head(tags)
         IN  IF tag.Key = NIL THEN retentionDays_noFallback(Tail(tags))
             ELSE IF ToLower(tag.Key[1]) = ToLower(smgr.retentionTag)
             THEN IF tag.Value = NIL THEN retentionDays_noFallback(Tail(tags))
                  ELSE ParseIntValue(tag.Value[1]).val
             ELSE retentionDays_noFallback(Tail(tags))

\* the loop over volume.Tags that sets days (declared as var days int64)
RECURSIVE retentionDays(_)
retentionDays(tags) ==
    IF tags = <<>> THEN 0
    ELSE LET tag == Head(tags)
         IN  IF tag.Key = NIL THEN retentionDays(Tail(tags))
             ELSE IF ToLower(tag.Key[1]) = ToLower(smgr.retentionTag)
             THEN IF tag.Value = NIL THEN retentionDays(Tail(tags))
                  ELSE LET parsed == ParseIntValue(tag.Value[1])
                       IN  IF parsed.err # "nil" THEN defaultRetentionDays
                           ELSE parsed.val
             ELSE retentionDays(Tail(tags))

\* time.Now().Add(time.Duration(days) * 24 * time.Hour)
deleteAfterOf(t, days) == Add(t, MulHour(days * 24))

\* fmt.Sprintf("%s-%d-%s", volume.VolumeId, time.Now().UnixNano(), suffix);
\* "p" stands for what %s prints for the pointer, "0" for the digits
snapshotName(volume, t) == <<"p", "-", "0", "-">> \o smgr.suffix

\* a slip in the tags: the name tag is left out
snapshotTags_noName(volume, t) ==
    <<Tag(Ptr(smgr.deleteAfterTag),
          Ptr(FormatRFC3339(deleteAfterOf(t, retentionDays(volume.Tags)))))>>

\* the Tags of the CreateTagsInput
snapshotTags(volume, t) ==
    <<Tag(Ptr(nameTag), Ptr(Text(snapshotName(volume, t)))),
      Tag(Ptr(smgr.deleteAfterTag),
          Ptr(FormatRFC3339(deleteAfterOf(t, retentionDays(volume.Tags)))))>>

\* the provider's CreateTags: the tags of the request replace the tags of
\* the same key on the resource and the others are kept
ApplyTags(old, new) ==
    SelectSeq(old, LAMBDA o : \A i \in 1..Len(new) : new[i].Key # o.Key) \o new

TagSnapshot(world, id, tags) ==
    [i \in 1..Len(world) |->
        IF world[i].SnapshotId = id
        THEN [world[i] EXCEPT !.Tags = ApplyTags(@, tags)]
        ELSE world[i]]

\* a slip in the loop: a failure of a volume ends Snapshot with an error
snapshotLoop_abort(i, n, failed) ==
    IF failed THEN [pc |-> "idle", ret |-> "err"]
    ELSE IF i = n THEN [pc |-> "idle", ret |-> "nil"]
    ELSE [pc |-> "snapshot", ret |-> "none"]

\* where the loop over n volumes goes after the iteration of volume i: the
\* continue of a failure and the end of the body lead to the next volume,
\* and after the last one Snapshot returns nil
snapshotLoop(i, n, failed) ==
    IF i = n THEN [pc |-> "idle", ret |-> "nil"]
    ELSE [pc |-> "snapshot", ret |-> "none"]

\* Snapshot up to the loop: fetchVolumes, and the return of its error
SnapshotBegin ==
    /\ pc = "idle"
    /\ calls < MaxCalls
    /\ calls' = calls + 1
    /\ \E failAt \in 0..NumPages(ec2Volumes) :
         LET f == fetchVolumes(1, failAt, <<>>, <<>>)
             sent == [i \in 1..Len(f.pages) |->
                         [api |-> "DescribeVolumes", page |-> f.pages[i],
                          ok |-> f.pages[i] # failAt]]
         IN  /\ reqs' = sent
             /\ seen' = <<>>
             /\ IF f.err
                THEN /\ ret' = "err"
                     /\ pc' = "idle"
                     /\ UNCHANGED <<volumes, vi>>
                ELSE /\ volumes' = f.result
                     /\ vi' = 1
                     /\ pc' = IF f.result = <<>> THEN "idle" ELSE "snapshot"
                     /\ ret' = IF f.result = <<>> THEN "nil" ELSE "none"
    /\ UNCHANGED <<now, ec2Volumes, ec2Snapshots, nextId, snaps, si, ec2Made>>
    /\ UNCHANGED <<lsvars, dbvars, rsvars>>

\* one iteration of the loop over volumes; after the last one, return nil.
\* created: CreateSnapshot "err" (an error), "nilid" (no error, SnapshotId
\* nil) or "ok"; tagged: whether CreateTags succeeds.
SnapshotVolume ==
    /\ pc = "snapshot"
    /\ vi <= Len(volumes)
    /\ \E created \in {"err", "nilid", "ok"}, tagged \in BOOLEAN :
         LET volume == volumes[vi]
             create == [api |-> "CreateSnapshot", vol |-> vi, at |-> now,
                        volume |-> volume, result |-> created]
             id     == Ptr(nextId)
             tags   == snapshotTags(volume, now)
             tag    == [api |-> "CreateTags", vol |-> vi, at |-> now,
                        volume |-> volume, ok |-> tagged,
                        Resources |-> <<id>>, Tags |-> tags]
             next   == snapshotLoop(vi, Len(volumes),
                                    created # "ok" \/ ~tagged)
         IN  /\ created # "ok" => tagged = FALSE
             /\ pc' = next.pc
             /\ ret' = next.ret
             /\ volumes' = IF next.pc = "idle" THEN <<>> ELSE volumes
             /\ vi' = IF next.pc = "idle" THEN 1 ELSE vi + 1
             /\ IF created = "ok"
                THEN /\ reqs' = reqs \o <<create, tag>>
                     /\ nextId' = nextId + 1
                     /\ ec2Snapshots' =
                          LET made == Append(ec2Snapshots,
                                        [SnapshotId |-> id, Tags |-> <<>>])
                          IN  IF tagged THEN TagSnapshot(made, id, tags)
                              ELSE made
                     /\ ec2Made' = Append(ec2Made,
                            [SnapshotId |-> id, at |-> now,
                             days |-> retentionDays(volume.Tags),
                             tagged |-> tagged])
                ELSE /\ reqs' = Append(reqs, create)
                     /\ UNCHANGED <<nextId, ec2Snapshots, ec2Made>>
    /\ UNCHANGED <<now, ec2Volumes, calls, snaps, si, seen>>
    /\ UNCHANGED <<lsvars, dbvars, rsvars>>

(***************************************************************************)
(* SnapshotManager.Prune                                                   *)
(***************************************************************************)
\* a slip in the loop: a value that does not parse is taken as expired
RECURSIVE pruneTags_deleteUnparsed(_, _)
pruneTags_deleteUnparsed(tags, t) ==
    IF tags = <<>> THEN 0
    ELSE LET tag == Head(tags)
         IN  IF tag.Key = NIL THEN pruneTags_deleteUnparsed(Tail(tags), t)
             ELSE IF tag.Key[1] = smgr.deleteAfterTag
             THEN IF tag.Value = NIL
                  THEN pruneTags_deleteUnparsed(Tail(tags), t)
                  ELSE LET parsed == ParseRFC3339(tag.Value[1])
                       IN  IF parsed.err
                           THEN 1 + pruneTags_deleteUnparsed(Tail(tags), t)
                           ELSE IF Before(parsed.t, t) THEN 0
                           ELSE 1 + pruneTags_deleteUnparsed(Tail(tags), t)
             ELSE pruneTags_deleteUnparsed(Tail(tags), t)

\* a slip in the loop: the DeleteSnapshot request is sent a second time
RECURSIVE pruneTags_again(_, _)
pruneTags_again(tags, t) ==
    IF tags = <<>> THEN 0
    ELSE LET tag == Head(tags)
         IN  IF tag.Key = NIL THEN pruneTags_again(Tail(tags), t)
             ELSE IF tag.Key[1] = smgr.deleteAfterTag
             THEN IF tag.Value = NIL THEN pruneTags_again(Tail(tags), t)
                  ELSE LET parsed == ParseRFC3339(tag.Value[1])
                       IN  IF parsed.err THEN 0
                           ELSE IF Before(parsed.t, t) THEN 0
                           ELSE 2 + pruneTags_again(Tail(tags), t)
             ELSE pruneTags_again(Tail(tags), t)

\* the loop over snap.Tags at the clock reading t: the number of
\* DeleteSnapshot requests it sends for the snapshot
RECURSIVE pruneTags(_, _)
pruneTags(tags, t) ==
    IF tags = <<>> THEN 0
    ELSE LET tag == Head(tags)
         IN  IF tag.Key = NIL THEN pruneTags(Tail(tags), t)
             ELSE IF tag.Key[1] = smgr.deleteAfterTag
             THEN IF tag.Value = NIL THEN pruneTags(Tail(tags), t)
                  ELSE LET parsed == ParseRFC3339(tag.Value[1])
                       IN  IF parsed.err THEN 0
                           ELSE IF Before(parsed.t, t) THEN 0
                           ELSE 1 + pruneTags(Tail(tags), t)
             ELSE pruneTags(Tail(tags), t)

\* a slip: the snapshots without tags go with the one deleted
RemoveSnapshot_andUntagged(world, id) ==
    SelectSeq(world, LAMBDA sn : sn.SnapshotId # id /\ sn.Tags # <<>>)

\* the provider's DeleteSnapshot, when it succeeds
RemoveSnapshot(world, id) == SelectSeq(world, LAMBDA sn : sn.SnapshotId # id)

\* Prune up to the loop: fetchSnapshots, and the return of its error
PruneBegin ==
    /\ pc = "idle"
    /\ calls < MaxCalls
    /\ calls' = calls + 1
    /\ \E failAt \in 0..NumPages(ec2Snapshots) :
         LET f == fetchSnapshots(1, failAt, <<>>, <<>>)
             sent == [i \in 1..Len(f.pages) |->
                         [api |-> "DescribeSnapshots", page |-> f.pages[i],
                          ok |-> f.pages[i] # failAt]]
         IN  /\ reqs' = sent
             /\ seen' = <<>>
             /\ IF f.err
                THEN /\ ret' = "err"
                     /\ pc' = "idle"
                     /\ UNCHANGED <<snaps, si>>
                ELSE /\ snaps' = f.result
                     /\ si' = 1
                     /\ pc' = IF f.result = <<>> THEN "idle" ELSE "prune"
                     /\ ret' = IF f.result = <<>> THEN "nil" ELSE "none"
    /\ UNCHANGED <<now, ec2Volumes, ec2Snapshots, nextId, volumes, vi, ec2Made>>
    /\ UNCHANGED <<lsvars, dbvars, rsvars>>

\* a slip: the record of a deleted snapshot is taken out of the datastore
PruneSnapshot_andRecord ==
    /\ pc = "prune"
    /\ si <= Len(snaps)
    /\ \E deleted \in BOOLEAN :
         LET snap == snaps[si]
             n    == pruneTags(snap.Tags, now)
             del  == [api |-> "DeleteSnapshot", snap |-> snap, at |-> now,
                      ok |-> deleted, SnapshotId |-> snap.SnapshotId]
         IN  /\ n = 0 => deleted = FALSE
             /\ reqs' = reqs \o [i \in 1..n |-> del]
             /\ seen' = Append(seen, [snap |-> snap, at |-> now])
             /\ ec2Snapshots' =
                  IF deleted THEN RemoveSnapshot(ec2Snapshots, snap.SnapshotId)
                  ELSE ec2Snapshots
             /\ dbTable' =
                  IF deleted
                  THEN {r \in dbTable : Ptr(r.snap_id.S) # snap.SnapshotId}
                  ELSE dbTable
    /\ IF si = Len(snaps)
       THEN pc' = "idle" /\ ret' = "nil" /\ snaps' = <<>> /\ si' = 1
       ELSE pc' = "prune" /\ ret' = "none" /\ snaps' = snaps /\ si' = si + 1
    /\ UNCHANGED <<now, ec2Volumes, nextId, calls, volumes, vi, ec2Made>>
    /\ UNCHANGED <<dbDs, dbCalls, dbLog, dbLast, putItemsSent, queriesSent,
                   deletesSent>>
    /\ UNCHANGED <<lsvars, rsvars>>

\* one iteration of the loop over snaps; after the last one, return nil.
\* deleted: whether the DeleteSnapshot requests of this snapshot succeed.
PruneSnapshot ==
    /\ pc = "prune"
    /\ si <= Len(snaps)
    /\ \E deleted \in BOOLEAN :
         LET snap == snaps[si]
             n    == pruneTags(snap.Tags, now)
             del  == [api |-> "DeleteSnapshot", snap |-> snap, at |-> now,
                      ok |-> deleted, SnapshotId |-> snap.SnapshotId]
         IN  /\ n = 0 => deleted = FALSE
             /\ reqs' = reqs \o [i \in 1..n |-> del]
             /\ seen' = Append(seen, [snap |-> snap, at |-> now])
             /\ ec2Snapshots' =
                  IF deleted THEN RemoveSnapshot(ec2Snapshots, snap.SnapshotId)
                  ELSE ec2Snapshots
    /\ IF si = Len(snaps)
       THEN pc' = "idle" /\ ret' = "nil" /\ snaps' = <<>> /\ si' = 1
       ELSE pc' = "prune" /\ ret' = "none" /\ snaps' = snaps /\ si' = si + 1
    /\ UNCHANGED <<now, ec2Volumes, nextId, calls, volumes, vi, ec2Made>>
    /\ UNCHANGED <<lsvars, dbvars, rsvars>>

(***************************************************************************)
(* pkg/snapshot/lightsail: SnapshotManager                                 *)
(***************************************************************************)
\* 10 * 24 * time.Hour
defaultRetention == Hours(10 * 24)

\* NewSnapshotManager(client, instance, WithRetention(retention)): the
\* manager of the instance
lsmgr ==
    [instance |-> lsInstance,
     suffix   |-> defaultSnapshotSuffix]

\* fmt.Sprintf("%s-%d-%s", smgr.instance, time.Now().UnixNano(), smgr.suffix);
\* n stands for the digits of the clock reading
lsSnapshotName(n) == lsmgr.instance \o <<"-", n, "-">> \o lsmgr.suffix

\* Snapshot: CreateInstanceSnapshot, whose error is returned.  The provider
\* stamps the new snapshot with the instance and the creation time.
LsSnapshot ==
    /\ lsPc = "idle"
    /\ lsCalls < MaxCalls
    /\ lsCalls' = lsCalls + 1
    /\ LET name == lsSnapshotName(Digits[lsCalls + 1])
       IN  /\ lsReqs' = <<[api |-> "CreateInstanceSnapshot",
                           InstanceName |-> Ptr(lsmgr.instance),
                           InstanceSnapshotName |-> Ptr(name)]>>
           /\ \E ok \in BOOLEAN :
                IF ok
                THEN /\ lsSnapshots' = Append(lsSnapshots,
                            [Name |-> Ptr(name),
                             FromInstanceName |-> Ptr(lsmgr.instance),
                             CreatedAt |-> Ptr(now)])
                     /\ lsMade' = Append(lsMade,
                            [Name |-> Ptr(name), at |-> now,
                             retention |-> lsRetention])
                     /\ lsRet' = "nil"
                ELSE /\ lsSnapshots' = lsSnapshots
                     /\ lsMade' = lsMade
                     /\ lsRet' = "err"
    /\ lsListed' = <<>>
    /\ lsSeen' = <<>>
    /\ UNCHANGED <<now, lsInstance, lsRetention, lsPc, lsSnaps, lsI>>
    /\ UNCHANGED <<ec2vars, dbvars, rsvars>>

\* GetInstanceSnapshots: the response to the request for page p
GetInstanceSnapshots(p) == Page(lsSnapshots, p)

\* the filter of the first loop of Prune
lsKeep(snapshot) ==
    /\ ~(\/ snapshot.FromInstanceName = NIL
         \/ snapshot.FromInstanceName[1] # lsmgr.instance)
    /\ HasSuffix(snapshot.Name[1], lsmgr.suffix)

\* the first loop of Prune from the page p on; failAt is the page whose
\* request errors (0: none).  [err, snapshots, pages, listed]
RECURSIVE lsFetch(_, _, _, _, _)
lsFetch(p, failAt, snapshots, pages, listed) ==
    IF p = failAt
    THEN [err |-> TRUE, snapshots |-> <<>>, pages |-> Append(pages, p),
          listed |-> listed]
    ELSE LET resp == GetInstanceSnapshots(p)
             kept == SelectSeq(resp.Items, lsKeep)
         IN  IF resp.NextToken = NIL
             THEN [err |-> FALSE, snapshots |-> snapshots \o kept,
                   pages |-> Append(pages, p), listed |-> listed \o resp.Items]
             ELSE lsFetch(resp.NextToken[1], failAt, snapshots \o kept,
                          Append(pages, p), listed \o resp.Items)

\* a slip in the test: a snapshot created exactly a retention ago is kept
lsNotOldEnough_inclusive(snapshot, t) ==
    ~Before(snapshot.CreatedAt[1],
            Add(t, Wrap64(Minus(Hours(0), lsRetention))))

\* the test of the second loop of Prune, at the clock reading t:
\* snapshot.CreatedAt.After(time.Now().Add(-smgr.retention))
lsNotOldEnough(snapshot, t) ==
    After(snapshot.CreatedAt[1],
          Add(t, Wrap64(Minus(Hours(0), lsRetention))))

\* Prune up to the second loop
LsPruneBegin ==
    /\ lsPc = "idle"
    /\ lsCalls < MaxCalls
    /\ lsCalls' = lsCalls + 1
    /\ \E failAt \in 0..NumPages(lsSnapshots) :
         LET f == lsFetch(1, failAt, <<>>, <<>>, <<>>)
         IN  /\ lsReqs' = [i \in 1..Len(f.pages) |->
                             [api |-> "GetInstanceSnapshots",
                              page |-> f.pages[i],
                              ok |-> f.pages[i] # failAt]]
             /\ lsListed' = f.listed
             /\ lsSeen' = <<>>
             /\ IF f.err
                THEN lsRet' = "err" /\ lsPc' = "idle" /\ UNCHANGED <<lsSnaps, lsI>>
                ELSE /\ lsSnaps' = f.snapshots
                     /\ lsI' = 1
                     /\ lsPc' = IF f.snapshots = <<>> THEN "idle" ELSE "prune"
                     /\ lsRet' = IF f.snapshots = <<>> THEN "nil" ELSE "none"
    /\ UNCHANGED <<now, lsInstance, lsRetention, lsSnapshots, lsMade>>
    /\ UNCHANGED <<ec2vars, dbvars, rsvars>>

\* one iteration of the second loop of Prune; after the last one, return nil.
\* deleted: whether DeleteInstanceSnapshot succeeds.
LsPruneSnapshot ==
    /\ lsPc = "prune"
    /\ lsI <= Len(lsSnaps)
    /\ \E deleted \in BOOLEAN :
         LET snapshot == lsSnaps[lsI]
             skip == \/ snapshot.CreatedAt = NIL
                     \/ lsNotOldEnough(snapshot, now)
             del  == [api |-> "DeleteInstanceSnapshot", ok |-> deleted,
                      InstanceSnapshotName |-> snapshot.Name]
         IN  /\ skip => deleted = FALSE
             /\ lsReqs' = IF skip THEN lsReqs ELSE Append(lsReqs, del)
             /\ lsSeen' = Append(lsSeen, [snap |-> snapshot, at |-> now])
             /\ lsSnapshots' =
                  IF deleted
                  THEN SelectSeq(lsSnapshots,
                                 LAMBDA sn : sn.Name # snapshot.Name)
                  ELSE lsSnapshots
    /\ IF lsI = Len(lsSnaps)
       THEN lsPc' = "idle" /\ lsRet' = "nil" /\ lsSnaps' = <<>> /\ lsI' = 1
       ELSE lsPc' = "prune" /\ lsRet' = "none" /\ lsSnaps' = lsSnaps
            /\ lsI' = lsI + 1
    /\ UNCHANGED <<now, lsInstance, lsRetention, lsCalls, lsListed, lsMade>>
    /\ UNCHANGED <<ec2vars, dbvars, rsvars>>

\* the values of the flag --retention
LsRetentionChoices == {defaultRetention, Hours(24)}

\* the command is run anew with another --retention: lightsailSnapshotter
\* builds the manager of the instance with it
LsRestart ==
    /\ lsPc = "idle"
    /\ \E r \in LsRetentionChoices : r # lsRetention /\ lsRetention' = r
    /\ lsReqs' = <<>>
    /\ lsListed' = <<>>
    /\ lsSeen' = <<>>
    /\ lsRet' = "none"
    /\ UNCHANGED <<now, lsInstance, lsSnapshots, lsCalls, lsPc, lsSnaps, lsI,
                   lsMade>>
    /\ UNCHANGED mainvars
    /\ UNCHANGED <<ec2vars, dbvars, rsvars>>

(***************************************************************************)
(* pkg/datastore/dynamodb: DynamoDB                                        *)
(***************************************************************************)
\* a slip in New: the client is not looked at
New_anyClient(client, table) ==
    [ds  |-> Ptr([table |-> table, client |-> client]),
     err |-> "nil"]

\* New(client, table): [ds, err]; ds is the datastore or nil
New(client, table) ==
    IF client = NIL
    THEN [ds |-> NIL, err |-> "client is nil"]
    ELSE [ds  |-> Ptr([table |-> table, client |-> client]),
          err |-> "nil"]

\* the datastore main has made: awsdynamodb.New(sess) is never nil
Constructed == dbDs = New(Ptr("dydb"), "snapshots")

\* a slip in the item: the creation time is left at zero
item_noCreatedAt(info) ==
    [Resource  |-> info.Resource,
     ID        |-> info.ID,
     CreatedAt |-> Unix(Hours(0)),
     Labels    |-> info.Labels]

\* the item that StoreSnapshotInfo builds from info; Labels is a map or nil
item(info) ==
    [Resource  |-> info.Resource,
     ID        |-> info.ID,
     CreatedAt |-> Unix(info.CreatedAt),
     Labels    |-> info.Labels]

\* dynamodbattribute.MarshalMap of an item, by its dynamodbav names: a
\* string is an S, an int64 an N, a map an M and a nil map a NULL
MarshalMap(record) ==
    [snapshot_resource |-> [S |-> record.Resource],
     created_at        |-> [N |-> record.CreatedAt],
     snap_id           |-> [S |-> record.ID],
     labels            |-> IF record.Labels = NIL THEN [NULL |-> TRUE]
                           ELSE [M |-> record.Labels[1]]]

\* dynamodbattribute.UnmarshalListOfMaps, for one element
UnmarshalMap(av) ==
    [Resource  |-> av.snapshot_resource.S,
     ID        |-> av.snap_id.S,
     CreatedAt |-> av.created_at.N,
     Labels    |-> IF "NULL" \in DOMAIN av.labels THEN NIL
                   ELSE Ptr(av.labels.M)]

\* the key schema of the table: snapshot_resource is the HASH key and
\* created_at the RANGE key
SameKey(a, b) ==
    /\ a.snapshot_resource = b.snapshot_resource
    /\ a.created_at = b.created_at

\* a slip: the item is added and the one of its key stays
PutItem_insert(table, av) == table \cup {av}

\* the table after a PutItem that succeeds
PutItem(table, av) == {r \in table : ~SameKey(r, av)} \cup {av}

\* a slip in the key: every item of the resource goes
DeleteItem_byResource(table, key) ==
    {r \in table : r.snapshot_resource # key.snapshot_resource}

\* the table after a DeleteItem that succeeds
DeleteItem(table, key) == {r \in table : ~SameKey(r, key)}

\* the items of a set in ascending order of the RANGE key
RECURSIVE Ascending(_)
Ascending(rows) ==
    IF rows = {} THEN <<>>
    ELSE LET first == CHOOSE r \in rows :
                         \A q \in rows : SecLeq(r.created_at.N, q.created_at.N)
         IN  <<first>> \o Ascending(rows \ {first})

\* the Items of a Query with the key condition
\* snapshot_resource = :snapshot_resource and created_at >= :created_at
Query(table, resource, createdAt) ==
    Ascending({r \in table :
                 /\ r.snapshot_resource = resource
                 /\ SecLeq(createdAt.N, r.created_at.N)})

\* a slip in the window: three days instead of two
lookback_threeDays(t) == Unix(Add(t, Wrap64(Hours(0 - 3 * 24))))

\* the :created_at of GetLatestSnapshotInfo at the clock reading t:
\* time.Now().Add(-2*24*time.Hour).Unix()
lookback(t) == Unix(Add(t, Wrap64(Hours(0 - 2 * 24))))

\* a slip in the choice: the first item instead of the last
latestOf_first(items) ==
    IF Len(items) <= 0
    THEN [err |-> "No items found", info |-> NIL]
    ELSE LET last == UnmarshalMap(items[1])
         IN  [err  |-> "nil",
              info |-> Ptr([Resource  |-> last.Resource,
                            ID        |-> last.ID,
                            CreatedAt |-> FromUnix(last.CreatedAt),
                            Labels    |-> last.Labels])]

\* what GetLatestSnapshotInfo makes of the Items of the Query: [err, info]
latestOf(items) ==
    IF Len(items) <= 0
    THEN [err |-> "No items found", info |-> NIL]
    ELSE LET last == UnmarshalMap(items[Len(items)])
         IN  [err  |-> "nil",
              info |-> Ptr([Resource  |-> last.Resource,
                            ID        |-> last.ID,
                            CreatedAt |-> FromUnix(last.CreatedAt),
                            Labels    |-> last.Labels])]

\* StoreSnapshotInfo(info); sent: whether PutItem succeeds
StoreSnapshotInfo(info, sent) ==
    /\ dbCalls' = dbCalls + 1
    /\ IF info = NIL
       THEN /\ dbLast' = [op |-> "Store", arg |-> info, at |-> now,
                          err |-> "info is nil", info |-> NIL]
            /\ UNCHANGED <<dbTable, dbLog, putItemsSent>>
       ELSE LET av == MarshalMap(item(info[1]))
            IN  /\ putItemsSent' = putItemsSent + 1
                /\ dbTable' = IF sent THEN PutItem(dbTable, av) ELSE dbTable
                /\ dbLog' = IF sent
                            THEN Append(dbLog, [op |-> "Store", arg |-> info[1]])
                            ELSE dbLog
                /\ dbLast' = [op |-> "Store", arg |-> info, at |-> now,
                              err |-> IF sent THEN "nil" ELSE "aws",
                              info |-> NIL]
    /\ UNCHANGED <<now, dbDs, queriesSent, deletesSent>>
    /\ UNCHANGED <<ec2vars, lsvars>>

\* GetLatestSnapshotInfo(resource); sent: whether Query succeeds
GetLatestSnapshotInfo(resource, sent) ==
    /\ dbCalls' = dbCalls + 1
    /\ queriesSent' = queriesSent + 1
    /\ LET out == Query(dbTable, [S |-> resource], [N |-> lookback(now)])
           got == IF sent THEN latestOf(out) ELSE [err |-> "aws", info |-> NIL]
       IN  dbLast' = [op |-> "Get", arg |-> resource, at |-> now,
                      err |-> got.err, info |-> got.info]
    /\ UNCHANGED <<now, dbDs, dbTable, dbLog, putItemsSent, deletesSent>>
    /\ UNCHANGED <<ec2vars, lsvars>>

\* DeleteSnapshotInfo(info); sent: whether DeleteItem succeeds
DeleteSnapshotInfo(info, sent) ==
    /\ dbCalls' = dbCalls + 1
    /\ IF info = NIL
       THEN /\ dbLast' = [op |-> "Delete", arg |-> info, at |-> now,
                          err |-> "info is nil", info |-> NIL]
            /\ UNCHANGED <<dbTable, dbLog, deletesSent>>
       ELSE LET key == [snapshot_resource |-> [S |-> info[1].Resource],
                        created_at |-> [N |-> Unix(info[1].CreatedAt)]]
            IN  /\ deletesSent' = deletesSent + 1
                /\ dbTable' = IF sent THEN DeleteItem(dbTable, key) ELSE dbTable
                /\ dbLog' = IF sent
                            THEN Append(dbLog, [op |-> "Delete", arg |-> info[1]])
                            ELSE dbLog
                /\ dbLast' = [op |-> "Delete", arg |-> info, at |-> now,
                              err |-> IF sent THEN "nil" ELSE "aws",
                              info |-> NIL]
    /\ UNCHANGED <<now, dbDs, putItemsSent, queriesSent>>
    /\ UNCHANGED <<ec2vars, lsvars>>

(***************************************************************************)
(* pkg/snapshot/ec2: RestoreManager                                        *)
(***************************************************************************)
\* one RestoreOption applied to the manager
ApplyOption(mgr, opt) ==
    CASE opt.with = "Size"      -> [mgr EXCEPT !.size = Ptr(opt.v)]
      [] opt.with = "IOPS"      -> [mgr EXCEPT !.iops = Ptr(opt.v)]
      [] opt.with = "Type"      -> [mgr EXCEPT !.volumeType = Ptr(opt.v)]
      [] opt.with = "Encrypted" -> [mgr EXCEPT !.encrypted = opt.v]
      [] opt.with = "KMSKeyID"  -> [mgr EXCEPT !.kmsKeyID = Ptr(opt.v)]

RECURSIVE ApplyOptions(_, _)
ApplyOptions(mgr, opts) ==
    IF opts = <<>> THEN mgr
    ELSE ApplyOptions(ApplyOption(mgr, Head(opts)), Tail(opts))

NewRestoreManager(snapshotID, az, opts) ==
    ApplyOptions([snapshotID |-> snapshotID,
                  az         |-> az,
                  iops       |-> NIL,
                  size       |-> NIL,
                  encrypted  |-> FALSE,
                  kmsKeyID   |-> NIL,
                  volumeType |-> NIL], opts)

\* a slip in the input: the key is set whether or not the volume is encrypted
CreateVolumeInput_keyAlways(mgr) ==
    [AvailabilityZone |-> Ptr(mgr.az),
     SnapshotId       |-> Ptr(mgr.snapshotID),
     Size       |-> IF mgr.size # NIL /\ mgr.size[1] > 0
                    THEN Ptr(mgr.size[1]) ELSE NIL,
     Iops       |-> IF mgr.iops # NIL /\ mgr.iops[1] > 0
                    THEN Ptr(mgr.iops[1]) ELSE NIL,
     VolumeType |-> IF mgr.volumeType # NIL /\ mgr.volumeType[1] # ""
                    THEN Ptr(mgr.volumeType[1]) ELSE NIL,
     Encrypted  |-> IF mgr.encrypted THEN Ptr(mgr.encrypted) ELSE NIL,
     KmsKeyId   |-> IF /\ mgr.kmsKeyID # NIL
                       /\ mgr.kmsKeyID[1] # ""
                    THEN Ptr(mgr.kmsKeyID[1]) ELSE NIL]

\* a slip in the input: the snapshot is left out
CreateVolumeInput_noSnapshotId(mgr) ==
    [AvailabilityZone |-> Ptr(mgr.az),
     SnapshotId       |-> NIL,
     Size       |-> IF mgr.size # NIL /\ mgr.size[1] > 0
                    THEN Ptr(mgr.size[1]) ELSE NIL,
     Iops       |-> IF mgr.iops # NIL /\ mgr.iops[1] > 0
                    THEN Ptr(mgr.iops[1]) ELSE NIL,
     VolumeType |-> IF mgr.volumeType # NIL /\ mgr.volumeType[1] # ""
                    THEN Ptr(mgr.volumeType[1]) ELSE NIL,
     Encrypted  |-> IF mgr.encrypted THEN Ptr(mgr.encrypted) ELSE NIL,
     KmsKeyId   |-> IF /\ mgr.encrypted
                       /\ mgr.kmsKeyID # NIL
                       /\ mgr.kmsKeyID[1] # ""
                    THEN Ptr(mgr.kmsKeyID[1]) ELSE NIL]

\* the CreateVolumeInput that Run builds; a field not set is NIL
CreateVolumeInput(mgr) ==
    [AvailabilityZone |-> Ptr(mgr.az),
     SnapshotId       |-> Ptr(mgr.snapshotID),
     Size       |-> IF mgr.size # NIL /\ mgr.size[1] > 0
                    THEN Ptr(mgr.size[1]) ELSE NIL,
     Iops       |-> IF mgr.iops # NIL /\ mgr.iops[1] > 0
                    THEN Ptr(mgr.iops[1]) ELSE NIL,
     VolumeType |-> IF mgr.volumeType # NIL /\ mgr.volumeType[1] # ""
                    THEN Ptr(mgr.volumeType[1]) ELSE NIL,
     Encrypted  |-> IF mgr.encrypted THEN Ptr(mgr.encrypted) ELSE NIL,
     KmsKeyId   |-> IF /\ mgr.encrypted
                       /\ mgr.kmsKeyID # NIL
                       /\ mgr.kmsKeyID[1] # ""
                    THEN Ptr(mgr.kmsKeyID[1]) ELSE NIL]

\* Run: [req, volumeID, err]; created: whether CreateVolume succeeds
Run(mgr, created) ==
    [req      |-> [api |-> "CreateVolume", input |-> CreateVolumeInput(mgr)],
     volumeID |-> IF created THEN "vol-new" ELSE "",
     err      |-> IF created THEN "nil" ELSE "aws"]

(***************************************************************************)
(* cmd/snapshotter: main, case "restore ebs"                               *)
(***************************************************************************)
\* the options main passes to NewRestoreManager, in its order
restoreOptions(flags) ==
    (IF flags.size > 0 THEN <<[with |-> "Size", v |-> flags.size]>> ELSE <<>>)
    \o (IF flags.iops > 0 THEN <<[with |-> "IOPS", v |-> flags.iops]>> ELSE <<>>)
    \o (IF flags.type # "" THEN <<[with |-> "Type", v |-> flags.type]>> ELSE <<>>)
    \o <<[with |-> "Encrypted", v |-> flags.encrypted]>>
    \o (IF flags.kmsKeyID # ""
        THEN <<[with |-> "Encrypted", v |-> TRUE],
               [with |-> "KMSKeyID", v |-> flags.kmsKeyID]>>
        ELSE <<>>)

\* a slip in the check of the flags: neither flag is required
needsSource_never(flags) == FALSE

\* the check main starts with: neither a resource nor a snapshot ID is given
needsSource(flags) == flags.fromResource = "" /\ flags.fromSnapshot = ""

\* logger.Fatal and logger.Fatalf: the process exits with status 1
Fatal ==
    /\ rsPc' = "exit"
    /\ rsExit' = "fatal"
    /\ UNCHANGED <<rsFlags, rsSnapshot, rsOut>>

\* main from the case label to the choice of the snapshot
RestoreLookup ==
    /\ rsPc = "parsed"
    /\ IF needsSource(rsFlags)
       THEN /\ Fatal
            /\ UNCHANGED <<rsReqs, dbvars>>
       ELSE IF rsFlags.fromResource # ""
       THEN IF rsFlags.table = ""
            THEN /\ Fatal
                 /\ UNCHANGED <<rsReqs, dbvars>>
            ELSE /\ \E sent \in BOOLEAN :
                        GetLatestSnapshotInfo(rsFlags.fromResource, sent)
                 /\ rsReqs' = Append(rsReqs, [api |-> "Query",
                                              resource |-> rsFlags.fromResource])
                 /\ IF dbLast'.err # "nil"
                    THEN Fatal
                    ELSE /\ rsSnapshot' = dbLast'.info[1].ID
                         /\ rsPc' = "restore"
                         /\ UNCHANGED <<rsFlags, rsExit, rsOut>>
       ELSE /\ rsSnapshot' = rsFlags.fromSnapshot
            /\ rsPc' = "restore"
            /\ UNCHANGED <<rsFlags, rsReqs, rsExit, rsOut, dbvars>>
    /\ UNCHANGED <<ec2vars, lsvars, mainvars>>

\* main from the options to its return: the restore manager is run
RestoreRun ==
    /\ rsPc = "restore"
    /\ \E created \in BOOLEAN :
           LET mgr == NewRestoreManager(rsSnapshot, rsFlags.az,
                                        restoreOptions(rsFlags))
               out == Run(mgr, created)
           IN  /\ rsReqs' = Append(rsReqs, out.req)
               /\ rsOut' = [volumeID |-> out.volumeID, err |-> out.err]
    /\ rsPc' = "exit"
    /\ rsExit' = "return"
    /\ UNCHANGED <<rsFlags, rsSnapshot>>
    /\ UNCHANGED <<ec2vars, lsvars, dbvars, mainvars>>

(***************************************************************************)
(* The clock                                                               *)
(***************************************************************************)
\* 2026-11-04T10:00:00Z
T0 == Hours(498250)

\* the clock readings of a behaviour: the start, half a second later and
\* eight days later
ClockChoices == {T0, Add(T0, Nanos(500000000)), Add(T0, Hours(8 * 24))}

\* time passes, between any two steps of the manager
Tick ==
    /\ \E t \in ClockChoices : Before(now, t) /\ now' = t
    /\ UNCHANGED <<ec2Volumes, ec2Snapshots, nextId, calls, pc,
                   volumes, vi, snaps, si, reqs, seen, ret, ec2Made>>
    /\ UNCHANGED <<lsvars, dbvars, rsvars, mainvars>>

(***************************************************************************)
(* The accounts the EC2 manager is run on                                  *)
(***************************************************************************)
\* sequences over S of length at most n
RECURSIVE SeqsUpTo(_, _)
SeqsUpTo(S, n) ==
    IF n = 0 THEN {<<>>}
    ELSE LET shorter == SeqsUpTo(S, n - 1)
         IN  shorter \cup {Append(q, x) : q \in shorter, x \in S}

\* tag keys are unique on a resource
UniqueKeys(tags) ==
    \A i, j \in 1..Len(tags) : tags[i].Key = tags[j].Key => i = j

RetentionUpper == <<"R","e","t","e","n","t","i","o","n">>

RetentionValueChoices ==
    {NIL,
     Ptr(Text(<<"3">>)),
     Ptr(Text(<<"-","1">>)),
     Ptr(Text(<<"a","b","c">>)),
     Ptr(Text(<<"1","0","6","7","5","2">>)),
     Ptr(Text(<<"9","9","9","9","9","9","9","9","9","9",
                "9","9","9","9","9","9","9","9","9","9">>))}

\* a tag "retention" of any value, a tag "Retention" (the keys of a resource
\* differ in case), and a tag the provider lists without its key
RetentionTagChoices ==
    {Tag(Ptr(defaultRetentionTag), v) : v \in RetentionValueChoices}
    \cup {Tag(Ptr(RetentionUpper), Ptr(Text(<<"5">>))),
          Tag(NIL, Ptr(Text(<<"3">>)))}

BackupTagOnly == <<Tag(Ptr(defaultBackupTag), Ptr(Text(<<"t","r","u","e">>)))>>

\* the volume under study: the backup tag and up to MaxTags retention tags
StudyVolumes ==
    {[VolumeId |-> Ptr("vol-1"), Tags |-> BackupTagOnly \o ts] :
        ts \in {q \in SeqsUpTo(RetentionTagChoices, MaxTags) : UniqueKeys(q)}}

\* the other volumes of the account: one without a retention tag, and one the
\* provider lists without its identity
OtherVolumes ==
    {[VolumeId |-> Ptr("vol-2"), Tags |-> BackupTagOnly],
     [VolumeId |-> NIL, Tags |-> BackupTagOnly]}

VolumeWorlds ==
    {<<v, o>> : v \in StudyVolumes, o \in OtherVolumes}

\* snapshots that exist already: with a name tag that ends with the suffix
\* (made by this tool) or not (made by hand), and a delete-after tag
DeleteAfterChoices ==
    {NIL,
     Ptr(Text(<<"s","o","o","n">>)),
     Ptr(FormatRFC3339(Minus(T0, Hours(1)))),
     Ptr(FormatRFC3339(T0)),
     Ptr(FormatRFC3339(Add(T0, Hours(1))))}

OwnName == <<"p", "-", "0", "-">> \o defaultSnapshotSuffix

ForeignName == <<"m","i","n","e">>

SnapshotTagChoices ==
    {<<Tag(Ptr(nameTag), Ptr(Text(OwnName))),
       Tag(Ptr(defaultDeleteAfterTag), d)>> : d \in DeleteAfterChoices}
    \cup {<<Tag(Ptr(nameTag), Ptr(Text(ForeignName))),
            Tag(Ptr(defaultDeleteAfterTag), d)>> :
                d \in {Ptr(FormatRFC3339(Minus(T0, Hours(1)))),
                       Ptr(FormatRFC3339(Add(T0, Hours(1))))}}
    \cup {<<Tag(Ptr(nameTag), Ptr(Text(OwnName)))>>}

\* the snapshots get the IDs 1, 2, ... in listing order
SnapshotWorlds ==
    {[i \in 1..Len(q) |-> [SnapshotId |-> Ptr(i), Tags |-> q[i]]] :
        q \in SeqsUpTo(SnapshotTagChoices, MaxSnapshots)}

\* the instance snapshots that exist already, for the retention r: of the
\* manager's instance "a", of the instance "b" or without an instance, made
\* by this tool or by hand, and created a retention ago, earlier, later or at
\* an unknown time
LsStudySnapshots(r) ==
    {[Name |-> Ptr(n), FromInstanceName |-> f, CreatedAt |-> c] :
        n \in {<<"a", "-", "x", "-">> \o defaultSnapshotSuffix,
               <<"a", "-", "x", "-", "m", "i", "n", "e">>},
        f \in {Ptr(<<"a">>), Ptr(<<"b">>), NIL},
        c \in {NIL,
               Ptr(Minus(T0, Plus(r, Hours(1)))),
               Ptr(Minus(T0, r)),
               Ptr(Plus(Minus(T0, r), Nanos(500000000))),
               Ptr(T0)}}

LsOtherSnapshot(r) ==
    [Name |-> Ptr(<<"a", "-", "y", "-">> \o defaultSnapshotSuffix),
     FromInstanceName |-> Ptr(<<"a">>),
     CreatedAt |-> Ptr(Minus(T0, Plus(r, Hours(1))))]

LsWorlds(r) ==
    {<<sn>> : sn \in LsStudySnapshots(r)}
    \cup {<<sn, LsOtherSnapshot(r)>> : sn \in LsStudySnapshots(r)}
    \cup {<<LsOtherSnapshot(r), sn>> : sn \in LsStudySnapshots(r)}

\* no EC2 manager runs
EC2Idle ==
    /\ ec2Volumes = <<>>
    /\ ec2Snapshots = <<>>
    /\ nextId = 1
    /\ calls = 0
    /\ pc = "idle"
    /\ volumes = <<>>
    /\ vi = 1
    /\ snaps = <<>>
    /\ si = 1
    /\ reqs = <<>>
    /\ seen = <<>>
    /\ ret = "none"
    /\ ec2Made = <<>>

\* no Lightsail manager runs
LSIdle ==
    /\ lsInstance = <<"a">>
    /\ lsRetention = defaultRetention
    /\ lsSnapshots = <<>>
    /\ lsCalls = 0
    /\ lsPc = "idle"
    /\ lsSnaps = <<>>
    /\ lsI = 1
    /\ lsReqs = <<>>
    /\ lsListed = <<>>
    /\ lsSeen = <<>>
    /\ lsRet = "none"
    /\ lsMade = <<>>

\* the datastore is not used
DBIdle ==
    /\ Constructed
    /\ dbTable = {}
    /\ dbCalls = 0
    /\ dbLog = <<>>
    /\ dbLast = [op |-> "none"]
    /\ putItemsSent = 0
    /\ queriesSent = 0
    /\ deletesSent = 0

\* no loop over snaps is modelled
MainIdle ==
    /\ mainSnaps = <<>>
    /\ mainI = 1
    /\ mainPc = "none"
    /\ mainLog = <<>>
    /\ completionTime = Hours(0)
    /\ pushed = <<>>

\* the step is not one of main's loop
NoMain == UNCHANGED mainvars

\* the command is not a restore
RSIdle(cmd) ==
    /\ rsFlags = [cmd |-> cmd]
    /\ rsPc = "none"
    /\ rsSnapshot = ""
    /\ rsReqs = <<>>
    /\ rsExit = "none"
    /\ rsOut = [volumeID |-> "", err |-> "none"]

\* the account the EC2 manager starts on, and the manager before its
\* first call
EC2Start ==
    /\ \/ ec2Volumes \in VolumeWorlds /\ ec2Snapshots = <<>>
       \/ ec2Volumes = <<[VolumeId |-> Ptr("vol-2"), Tags |-> BackupTagOnly]>>
          /\ ec2Snapshots \in SnapshotWorlds
    /\ nextId = Len(ec2Snapshots) + 1
    /\ calls = 0
    /\ pc = "idle"
    /\ volumes = <<>>
    /\ vi = 1
    /\ snaps = <<>>
    /\ si = 1
    /\ reqs = <<>>
    /\ seen = <<>>
    /\ ret = "none"
    /\ ec2Made = <<>>

InitEC2 ==
    /\ now = T0
    /\ MainIdle
    /\ RSIdle("snapshot ebs")
    /\ LSIdle
    /\ DBIdle
    /\ EC2Start

NextEC2 ==
    \/ SnapshotBegin /\ NoMain
    \/ SnapshotVolume /\ NoMain
    \/ PruneBegin /\ NoMain
    \/ PruneSnapshot /\ NoMain
    \/ Tick

SpecEC2 == InitEC2 /\ [][NextEC2]_vars

InitLS ==
    /\ now = T0
    /\ MainIdle
    /\ RSIdle("snapshot lightsail")
    /\ EC2Idle
    /\ DBIdle
    /\ lsInstance = <<"a">>
    /\ lsRetention \in LsRetentionChoices
    /\ lsSnapshots \in LsWorlds(lsRetention)
    /\ lsCalls = 0
    /\ lsPc = "idle"
    /\ lsSnaps = <<>>
    /\ lsI = 1
    /\ lsReqs = <<>>
    /\ lsListed = <<>>
    /\ lsSeen = <<>>
    /\ lsRet = "none"
    /\ lsMade = <<>>

NextLS ==
    \/ LsSnapshot /\ NoMain
    \/ LsPruneBegin /\ NoMain
    \/ LsPruneSnapshot /\ NoMain
    \/ Tick

SpecLS == InitLS /\ [][NextLS]_vars

\* the command "snapshot lightsail" run again and again, the retention
\* changing from one run to the next
NextLSRuns ==
    \/ LsSnapshot /\ NoMain
    \/ LsPruneBegin /\ NoMain
    \/ LsPruneSnapshot /\ NoMain
    \/ LsRestart
    \/ Tick

SpecLSRuns == InitLS /\ [][NextLSRuns]_vars

\* the records the callers store: of vol-1 half a second before the lookback
\* window of T0, at its start, half a second later and an hour before T0;
\* of vol-2 at T0
WindowStart == Minus(T0, Hours(2 * 24))

InfoChoices ==
    {[Resource |-> "vol-1", ID |-> "snap-a",
      CreatedAt |-> Minus(WindowStart, Nanos(500000000)),
      Labels |-> Ptr([origin |-> "influxdb-data"])],
     [Resource |-> "vol-1", ID |-> "snap-a", CreatedAt |-> WindowStart,
      Labels |-> Ptr([origin |-> "influxdb-data"])],
     [Resource |-> "vol-1", ID |-> "snap-b",
      CreatedAt |-> Plus(WindowStart, Nanos(500000000)), Labels |-> NIL],
     [Resource |-> "vol-1", ID |-> "snap-a", CreatedAt |-> Minus(T0, Hours(1)),
      Labels |-> Ptr([origin |-> "influxdb-data"])],
     [Resource |-> "vol-1", ID |-> "snap-b", CreatedAt |-> Minus(T0, Hours(1)),
      Labels |-> NIL],
     [Resource |-> "vol-2", ID |-> "snap-c", CreatedAt |-> T0, Labels |-> NIL]}

ResourceChoices == {"vol-1", "vol-2"}

\* time.Time{}: January 1, year 1, 00:00:00 UTC, 62135596800 seconds before
\* the epoch
ZeroTime == Hours(0 - 17259888)

\* the records the callers delete: the stored ones, and one that has no
\* creation time, as Test_DeleteSnapshotInfo gives it
DeleteChoices ==
    InfoChoices
      \cup {[Resource |-> "vol-2", ID |-> "snap-c", CreatedAt |-> ZeroTime,
              Labels |-> NIL]}

InitDB ==
    /\ now = T0
    /\ MainIdle
    /\ RSIdle("snapshot ebs")
    /\ EC2Idle
    /\ LSIdle
    /\ DBIdle

Store ==
    /\ dbCalls < MaxDbCalls
    /\ \E info \in {NIL} \cup {Ptr(i) : i \in InfoChoices}, sent \in BOOLEAN :
         StoreSnapshotInfo(info, sent)
    /\ UNCHANGED <<rsvars, mainvars>>

GetLatest ==
    /\ dbCalls < MaxDbCalls
    /\ \E resource \in ResourceChoices, sent \in BOOLEAN :
         GetLatestSnapshotInfo(resource, sent)
    /\ UNCHANGED <<rsvars, mainvars>>

Delete ==
    /\ dbCalls < MaxDbCalls
    /\ \E info \in {NIL} \cup {Ptr(i) : i \in DeleteChoices}, sent \in BOOLEAN :
         DeleteSnapshotInfo(info, sent)
    /\ UNCHANGED <<rsvars, mainvars>>

NextDB ==
    \/ Store
    \/ GetLatest
    \/ Delete
    \/ Tick

SpecDB == InitDB /\ [][NextDB]_vars

\* The datastore from its construction on: the callers give New a client or
\* nil and a table name, and call the methods of the datastore New returned
ClientChoices == {NIL, Ptr("dydb")}

TableNameChoices == {"snapshots", ""}

InitDatastore ==
    /\ now = T0
    /\ MainIdle
    /\ RSIdle("snapshot ebs")
    /\ EC2Idle
    /\ LSIdle
    /\ dbDs = [ds |-> NIL, err |-> "none"]
    /\ dbTable = {}
    /\ dbCalls = 0
    /\ dbLog = <<>>
    /\ dbLast = [op |-> "none"]
    /\ putItemsSent = 0
    /\ queriesSent = 0
    /\ deletesSent = 0

NewDatastore ==
    /\ dbDs.err = "none"
    /\ \E client \in ClientChoices, table \in TableNameChoices :
         /\ dbDs' = New(client, table)
         /\ dbLast' = [op |-> "New", arg |-> client]
    /\ UNCHANGED <<now, dbTable, dbCalls, dbLog, putItemsSent, queriesSent,
                   deletesSent>>
    /\ UNCHANGED <<ec2vars, lsvars, rsvars, mainvars>>

NextDatastore ==
    \/ NewDatastore
    \/ dbDs.ds # NIL /\ Store
    \/ dbDs.ds # NIL /\ GetLatest
    \/ dbDs.ds # NIL /\ Delete
    \/ Tick

SpecDatastore == InitDatastore /\ [][NextDatastore]_vars

\* a run of the command "snapshot ebs" or "snapshot lightsail": main's
\* snaps holds the one manager of the command
InitSnapshotter == InitEC2 \/ InitLS

EBSCommand == rsFlags.cmd = "snapshot ebs"

LightsailCommand == rsFlags.cmd = "snapshot lightsail"

NextSnapshotter ==
    \/ EBSCommand /\ SnapshotBegin /\ NoMain
    \/ EBSCommand /\ SnapshotVolume /\ NoMain
    \/ EBSCommand /\ PruneBegin /\ NoMain
    \/ EBSCommand /\ PruneSnapshot /\ NoMain
    \/ LightsailCommand /\ LsSnapshot /\ NoMain
    \/ LightsailCommand /\ LsPruneBegin /\ NoMain
    \/ LightsailCommand /\ LsPruneSnapshot /\ NoMain
    \/ Tick

SpecSnapshotter == InitSnapshotter /\ [][NextSnapshotter]_vars

(***************************************************************************)
(* cmd/snapshotter: main's loop over snaps                                 *)
(***************************************************************************)
\* the instances that GetInstances lists: one, two, or one without a name
\* before another
InstanceWorlds ==
    {<<[Name |-> Ptr(<<"a">>)]>>,
     <<[Name |-> Ptr(<<"a">>)], [Name |-> Ptr(<<"b">>)]>>,
     <<[Name |-> Ptr(<<"b">>)], [Name |-> Ptr(<<"a">>)]>>,
     <<[Name |-> NIL], [Name |-> Ptr(<<"a">>)]>>}

\* lightsailSnapshotter, when no request fails: a manager for each instance
\* that has a name, in listing order; a manager stands as its instance
lightsailSnapshotter(instances) ==
    LET named == SelectSeq(instances, LAMBDA instance : instance.Name # NIL)
    IN  [i \in 1..Len(named) |-> named[i].Name[1]]

\* a slip: the error of Snapshot ends the body of the loop
afterSnapshot_skipPrune(r) == IF r = "err" THEN "next" ELSE "prune"

\* where the body of the loop goes when s.Snapshot has returned r: the error
\* is logged
afterSnapshot(r) == "prune"

\* a slip: a Prune that returned an error is called again
afterPrune_retry(r) == IF r = "err" THEN "prune" ELSE "next"

\* where the body of the loop goes when s.Prune has returned r: the error is
\* logged
afterPrune(r) == "next"

\* where main goes after the loop: if *pushgatewayURL != ""
afterLoop(url) == IF url # "" THEN "push" ELSE "return"

\* main's record of a call that starts, and of what the call returns
Called(call, r) ==
    Append(mainLog, [mgr |-> mainI, call |-> call, ret |-> r])

Returned(r) == [mainLog EXCEPT ![Len(mainLog)].ret = r]

\* for _, s := range snaps: the next manager, or the end of the loop
MainNext ==
    /\ mainPc = "next"
    /\ IF mainI < Len(mainSnaps)
       THEN /\ mainI' = mainI + 1
            /\ mainPc' = "snapshot"
            /\ IF LightsailCommand
               THEN lsInstance' = mainSnaps[mainI + 1] /\ lsCalls' = 0
               ELSE UNCHANGED <<lsInstance, lsCalls>>
       ELSE /\ mainPc' = afterLoop(rsFlags.pushgatewayURL)
            /\ UNCHANGED <<mainI, lsInstance, lsCalls>>
    /\ UNCHANGED <<mainSnaps, completionTime, pushed, mainLog>>
    /\ UNCHANGED <<lsRetention, lsSnapshots, lsPc, lsSnaps, lsI, lsReqs,
                   lsListed, lsSeen, lsRet, lsMade>>
    /\ UNCHANGED <<ec2vars, dbvars, rsvars>>

\* if !*disableSnapshot, when the flag is set
MainSkipSnapshot ==
    /\ mainPc = "snapshot"
    /\ rsFlags.disableSnapshot
    /\ mainPc' = "prune"
    /\ UNCHANGED <<mainSnaps, completionTime, pushed, mainI, mainLog>>
    /\ UNCHANGED <<ec2vars, lsvars, dbvars, rsvars>>

\* s.Snapshot(ctx) of the EC2 manager, up to its loop
MainEbsSnapshot ==
    /\ mainPc = "snapshot"
    /\ ~rsFlags.disableSnapshot
    /\ EBSCommand
    /\ SnapshotBegin
    /\ mainPc' = IF pc' = "idle" THEN afterSnapshot(ret') ELSE "in-snapshot"
    /\ mainLog' = Called("Snapshot", ret')
    /\ UNCHANGED <<mainSnaps, completionTime, pushed, mainI>>

\* s.Snapshot(ctx) of the EC2 manager: an iteration of its loop
MainEbsSnapshotVolume ==
    /\ mainPc = "in-snapshot"
    /\ EBSCommand
    /\ SnapshotVolume
    /\ mainPc' = IF pc' = "idle" THEN afterSnapshot(ret') ELSE "in-snapshot"
    /\ mainLog' = Returned(ret')
    /\ UNCHANGED <<mainSnaps, completionTime, pushed, mainI>>

\* s.Snapshot(ctx) of a Lightsail manager
MainLsSnapshot ==
    /\ mainPc = "snapshot"
    /\ ~rsFlags.disableSnapshot
    /\ LightsailCommand
    /\ LsSnapshot
    /\ mainPc' = afterSnapshot(lsRet')
    /\ mainLog' = Called("Snapshot", lsRet')
    /\ UNCHANGED <<mainSnaps, completionTime, pushed, mainI>>

\* if !*disablePrune, when the flag is set
MainSkipPrune ==
    /\ mainPc = "prune"
    /\ rsFlags.disablePrune
    /\ mainPc' = "next"
    /\ UNCHANGED <<mainSnaps, completionTime, pushed, mainI, mainLog>>
    /\ UNCHANGED <<ec2vars, lsvars, dbvars, rsvars>>

\* a slip: the EC2 manager is pruned whatever the flag says
MainEbsPrune_always ==
    /\ mainPc = "prune"
    /\ EBSCommand
    /\ PruneBegin
    /\ mainPc' = IF pc' = "idle" THEN afterPrune(ret') ELSE "in-prune"
    /\ mainLog' = Called("Prune", ret')
    /\ UNCHANGED <<mainSnaps, completionTime, pushed, mainI>>

\* s.Prune(ctx) of the EC2 manager, up to its loop
MainEbsPrune ==
    /\ mainPc = "prune"
    /\ ~rsFlags.disablePrune
    /\ EBSCommand
    /\ PruneBegin
    /\ mainPc' = IF pc' = "idle" THEN afterPrune(ret') ELSE "in-prune"
    /\ mainLog' = Called("Prune", ret')
    /\ UNCHANGED <<mainSnaps, completionTime, pushed, mainI>>

\* s.Prune(ctx) of the EC2 manager: an iteration of its loop
MainEbsPruneSnapshot ==
    /\ mainPc = "in-prune"
    /\ EBSCommand
    /\ PruneSnapshot
    /\ mainPc' = IF pc' = "idle" THEN afterPrune(ret') ELSE "in-prune"
    /\ mainLog' = Returned(ret')
    /\ UNCHANGED <<mainSnaps, completionTime, pushed, mainI>>

\* s.Prune(ctx) of a Lightsail manager, up to its second loop
MainLsPrune ==
    /\ mainPc = "prune"
    /\ ~rsFlags.disablePrune
    /\ LightsailCommand
    /\ LsPruneBegin
    /\ mainPc' = IF lsPc' = "idle" THEN afterPrune(lsRet') ELSE "in-prune"
    /\ mainLog' = Called("Prune", lsRet')
    /\ UNCHANGED <<mainSnaps, completionTime, pushed, mainI>>

\* s.Prune(ctx) of a Lightsail manager: an iteration of its second loop
MainLsPruneSnapshot ==
    /\ mainPc = "in-prune"
    /\ LightsailCommand
    /\ LsPruneSnapshot
    /\ mainPc' = IF lsPc' = "idle" THEN afterPrune(lsRet') ELSE "in-prune"
    /\ mainLog' = Returned(lsRet')
    /\ UNCHANGED <<mainSnaps, completionTime, pushed, mainI>>

\* completionTime.SetToCurrentTime() and push.AddFromGatherer, whose error is
\* logged; sent: whether the push succeeds
MainPush ==
    /\ mainPc = "push"
    /\ completionTime' = now
    /\ \E sent \in BOOLEAN :
         pushed' = Append(pushed, [url   |-> rsFlags.pushgatewayURL,
                                   value |-> completionTime',
                                   err   |-> IF sent THEN "nil" ELSE "err"])
    /\ mainPc' = "return"
    /\ UNCHANGED <<mainSnaps, mainI, mainLog>>
    /\ UNCHANGED <<ec2vars, lsvars, dbvars, rsvars>>

\* the flags of the two commands, with --pushgateway-url among urls
MainFlags(cmd, urls) ==
    [cmd : {cmd}, disableSnapshot : BOOLEAN, disablePrune : BOOLEAN,
     pushgatewayURL : urls]

\* main before the loop: parsed flags, and snaps as the case of the command
\* built it
MainStart(cmd, managers, urls) ==
    /\ rsFlags \in MainFlags(cmd, urls)
    /\ rsPc = "none"
    /\ rsSnapshot = ""
    /\ rsReqs = <<>>
    /\ rsExit = "none"
    /\ rsOut = [volumeID |-> "", err |-> "none"]
    /\ mainSnaps = managers
    /\ mainI = 0
    /\ mainPc = "next"
    /\ mainLog = <<>>
    /\ completionTime = Hours(0)
    /\ pushed = <<>>

\* the runs of the two commands with --pushgateway-url among urls, started
\* at one of the clock readings
MainRunsAt(urls, clocks) ==
    /\ now \in clocks
    /\ DBIdle
    /\ \/ /\ MainStart("snapshot ebs", <<"ebs">>, urls)
          /\ LSIdle
          /\ EC2Start
       \/ /\ \E instances \in InstanceWorlds :
                 MainStart("snapshot lightsail",
                           lightsailSnapshotter(instances), urls)
          /\ EC2Idle
          /\ lsInstance = <<"a">>
          /\ lsRetention = defaultRetention
          /\ lsSnapshots \in LsWorlds(lsRetention)
          /\ lsCalls = 0
          /\ lsPc = "idle"
          /\ lsSnaps = <<>>
          /\ lsI = 1
          /\ lsReqs = <<>>
          /\ lsListed = <<>>
          /\ lsSeen = <<>>
          /\ lsRet = "none"
          /\ lsMade = <<>>

MainRuns(urls) == MainRunsAt(urls, {T0})

\* the runs that have no pushgateway
InitMain == MainRuns({""})

NextMain ==
    \/ MainNext
    \/ MainSkipSnapshot
    \/ MainEbsSnapshot
    \/ MainEbsSnapshotVolume
    \/ MainLsSnapshot
    \/ MainSkipPrune
    \/ MainEbsPrune
    \/ MainEbsPruneSnapshot
    \/ MainLsPrune
    \/ MainLsPruneSnapshot
    \/ Tick

SpecMain == InitMain /\ [][NextMain]_vars

\* main is one goroutine and every call it makes returns or fails under its
\* context: a step of main that can be taken is taken
MainRunning ==
    \/ MainNext
    \/ MainSkipSnapshot
    \/ MainEbsSnapshot
    \/ MainEbsSnapshotVolume
    \/ MainLsSnapshot
    \/ MainSkipPrune
    \/ MainEbsPrune
    \/ MainEbsPruneSnapshot
    \/ MainLsPrune
    \/ MainLsPruneSnapshot

\* the runs of main alone, started at any of the clock readings; a run is
\* short, and the clock is left where it was
InitMainFair == MainRunsAt({""}, ClockChoices)

SpecMainFair ==
    InitMainFair /\ [][MainRunning]_vars /\ WF_vars(MainRunning)

\* the table after the records were stored
TableOf(infos) == {MarshalMap(item(i)) : i \in infos}

\* the tables a restore finds: empty; one record of vol-1, older than the
\* window; two records of vol-1 in the window and one of vol-2
RestoreTables ==
    {TableOf({}),
     TableOf({i \in InfoChoices : Before(i.CreatedAt, WindowStart)}),
     TableOf({i \in InfoChoices :
                \/ i.CreatedAt = WindowStart
                \/ i.ID = "snap-b" /\ i.CreatedAt = Minus(T0, Hours(1))
                \/ i.Resource = "vol-2"})}

\* the command lines of "restore ebs"
RestoreFlags ==
    [cmd          : {"restore ebs"},
     fromSnapshot : {"", "snap-x"},
     fromResource : {"", "vol-1", "vol-2"},
     table        : {"", "snapshots"},
     az           : {"eu-central-1a"},
     size         : {0, 10},
     iops         : {0, 100},
     type         : {"", "io1"},
     encrypted    : BOOLEAN,
     kmsKeyID     : {"", "key-1"}]

InitRestore ==
    /\ now = T0
    /\ MainIdle
    /\ EC2Idle
    /\ LSIdle
    /\ Constructed
    /\ dbTable \in RestoreTables
    /\ dbCalls = 0
    /\ dbLog = <<>>
    /\ dbLast = [op |-> "none"]
    /\ putItemsSent = 0
    /\ queriesSent = 0
    /\ deletesSent = 0
    /\ rsFlags \in RestoreFlags
    /\ rsPc = "parsed"
    /\ rsSnapshot = ""
    /\ rsReqs = <<>>
    /\ rsExit = "none"
    /\ rsOut = [volumeID |-> "", err |-> "none"]

NextRestore ==
    \/ RestoreLookup
    \/ RestoreRun
    \/ Tick

SpecRestore == InitRestore /\ [][NextRestore]_vars

(***************************************************************************)
(* cmd/snapshotter: main from the parsed command line to its end, for the  *)
(* three commands, with and without a pushgateway                          *)
(***************************************************************************)
UrlChoices == {"", "http://pushgateway:9091"}

\* main at case "snapshot lightsail", before lightsailSnapshotter
LightsailParsed ==
    /\ now = T0
    /\ DBIdle
    /\ EC2Idle
    /\ LSIdle
    /\ rsFlags \in MainFlags("snapshot lightsail", UrlChoices)
    /\ rsPc = "none"
    /\ rsSnapshot = ""
    /\ rsReqs = <<>>
    /\ rsExit = "none"
    /\ rsOut = [volumeID |-> "", err |-> "none"]
    /\ mainSnaps = <<>>
    /\ mainI = 0
    /\ mainPc = "build"
    /\ mainLog = <<>>
    /\ completionTime = Hours(0)
    /\ pushed = <<>>

\* snaps, err = lightsailSnapshotter(...): the managers of the instances
\* listed, or logger.Fatal when GetInstances fails
MainLightsailSnapshotter ==
    /\ mainPc = "build"
    /\ \E instances \in InstanceWorlds, listed \in BOOLEAN :
         IF listed
         THEN /\ mainSnaps' = lightsailSnapshotter(instances)
              /\ mainPc' = "next"
              /\ UNCHANGED rsvars
         ELSE /\ mainPc' = "exit"
              /\ Fatal
              /\ UNCHANGED <<mainSnaps, rsReqs>>
    /\ UNCHANGED <<mainI, mainLog, completionTime, pushed>>
    /\ UNCHANGED <<ec2vars, lsvars, dbvars>>

InitRun ==
    \/ MainRuns(UrlChoices)
    \/ LightsailParsed
    \/ InitRestore

NextRun ==
    \/ MainLightsailSnapshotter
    \/ MainNext
    \/ MainSkipSnapshot
    \/ MainEbsSnapshot
    \/ MainEbsSnapshotVolume
    \/ MainLsSnapshot
    \/ MainSkipPrune
    \/ MainEbsPrune
    \/ MainEbsPruneSnapshot
    \/ MainLsPrune
    \/ MainLsPruneSnapshot
    \/ MainPush
    \/ RestoreLookup
    \/ RestoreRun
    \/ Tick

SpecRun == InitRun /\ [][NextRun]_vars

(***************************************************************************)
(* NewRestoreManager called with any options, in any order                 *)
(***************************************************************************)
\* how many options a caller passes at most
MaxOpts == 3

\* the options of the package, with values on both sides of the tests of Run
OptionChoices ==
    <<[with |-> "Size", v |-> 0 - 1],
      [with |-> "Size", v |-> 0],
      [with |-> "Size", v |-> 10],
      [with |-> "IOPS", v |-> 0],
      [with |-> "IOPS", v |-> 100],
      [with |-> "Type", v |-> ""],
      [with |-> "Type", v |-> "io1"],
      [with |-> "Encrypted", v |-> FALSE],
      [with |-> "Encrypted", v |-> TRUE],
      [with |-> "KMSKeyID", v |-> ""],
      [with |-> "KMSKeyID", v |-> "key-1"]>>

\* the options a caller passes, given by their places in OptionChoices
OptionsOf(places) == [i \in DOMAIN places |-> OptionChoices[places[i]]]

\* a caller of the package is about to build a manager and run it
InitOptions ==
    /\ now = T0
    /\ MainIdle
    /\ EC2Idle
    /\ LSIdle
    /\ DBIdle
    /\ rsFlags \in [cmd  : {"library"},
                     az   : {"eu-central-1a"},
                     opts : SeqsUpTo(DOMAIN OptionChoices, MaxOpts)]
    /\ rsPc = "run"
    /\ rsSnapshot = "snap-x"
    /\ rsReqs = <<>>
    /\ rsExit = "none"
    /\ rsOut = [volumeID |-> "", err |-> "none"]

\* NewRestoreManager(client, snapshotID, az, opts...).Run(ctx)
LibraryRun ==
    /\ rsPc = "run"
    /\ \E created \in BOOLEAN :
           LET mgr == NewRestoreManager(rsSnapshot, rsFlags.az,
                                        OptionsOf(rsFlags.opts))
               out == Run(mgr, created)
           IN  /\ rsReqs' = Append(rsReqs, out.req)
               /\ rsOut' = [volumeID |-> out.volumeID, err |-> out.err]
    /\ rsPc' = "exit"
    /\ rsExit' = "return"
    /\ UNCHANGED <<rsFlags, rsSnapshot>>
    /\ UNCHANGED <<ec2vars, lsvars, dbvars, mainvars>>

\* the restore command, and callers of the package
InitRestoreOptions == InitRestore \/ InitOptions

NextRestoreOptions ==
    \/ RestoreLookup
    \/ RestoreRun
    \/ LibraryRun
    \/ Tick

SpecRestoreOptions == InitRestoreOptions /\ [][NextRestoreOptions]_vars

(***************************************************************************)
(* Pruning an account whose snapshots have records in the datastore        *)
(***************************************************************************)
\* the records of the snapshots of a world, all of the volume vol-2: the
\* snapshot k was created k hours before T0
RecordsOf(world) ==
    {[Resource |-> "vol-2", ID |-> world[k].SnapshotId[1],
      CreatedAt |-> Minus(T0, Hours(k)), Labels |-> NIL] : k \in DOMAIN world}

\* snapshot ebs: Prune finds snapshots made earlier, each with its record;
\* snapshot lightsail: the table holds the records of EBS snapshots
InitRecorded ==
    /\ now = T0
    /\ MainIdle
    /\ Constructed
    /\ dbCalls = 0
    /\ dbLog = <<>>
    /\ dbLast = [op |-> "none"]
    /\ putItemsSent = 0
    /\ queriesSent = 0
    /\ deletesSent = 0
    /\ \/ /\ RSIdle("snapshot ebs")
          /\ LSIdle
          /\ ec2Volumes = <<[VolumeId |-> Ptr("vol-2"), Tags |-> BackupTagOnly]>>
          /\ ec2Snapshots \in SnapshotWorlds \ {<<>>}
          /\ nextId = Len(ec2Snapshots) + 1
          /\ calls = 0
          /\ pc = "idle"
          /\ volumes = <<>>
          /\ vi = 1
          /\ snaps = <<>>
          /\ si = 1
          /\ reqs = <<>>
          /\ seen = <<>>
          /\ ret = "none"
          /\ ec2Made = <<>>
          /\ dbTable = TableOf(RecordsOf(ec2Snapshots))
       \/ /\ RSIdle("snapshot lightsail")
          /\ EC2Idle
          /\ lsInstance = <<"a">>
          /\ lsRetention = defaultRetention
          /\ lsSnapshots \in LsWorlds(lsRetention)
          /\ lsCalls = 0
          /\ lsPc = "idle"
          /\ lsSnaps = <<>>
          /\ lsI = 1
          /\ lsReqs = <<>>
          /\ lsListed = <<>>
          /\ lsSeen = <<>>
          /\ lsRet = "none"
          /\ lsMade = <<>>
          /\ dbTable = TableOf({i \in InfoChoices : i.ID = "snap-b"})

\* Prune, and restores that look a record up while it runs or after it
NextRecorded ==
    \/ EBSCommand /\ PruneBegin /\ NoMain
    \/ EBSCommand /\ PruneSnapshot /\ NoMain
    \/ LightsailCommand /\ LsPruneBegin /\ NoMain
    \/ LightsailCommand /\ LsPruneSnapshot /\ NoMain
    \/ GetLatest
    \/ Tick

SpecRecorded == InitRecorded /\ [][NextRecorded]_vars

(***************************************************************************)
(* Properties of the datastore                                             *)
(***************************************************************************)
\* the step is a StoreSnapshotInfo that succeeds
StoreSucceeds ==
    /\ dbCalls' = dbCalls + 1
    /\ dbLast'.op = "Store"
    /\ dbLast'.err = "nil"

\* C9: a StoreSnapshotInfo for a resource never overwrites a record of that
\* resource with another snapshot ID, for any two creation times.
C9_StoreNeverOverwrites ==
    [][StoreSucceeds
       => \A row \in dbTable :
              (/\ row.snapshot_resource.S = dbLast'.arg[1].Resource
               /\ row.snap_id.S # dbLast'.arg[1].ID)
              => row \in dbTable']_vars

\* C9 as amended: a StoreSnapshotInfo for a resource never overwrites a
\* record of that resource with another snapshot ID whose creation time
\* differs in epoch seconds, and its own record is in the table afterwards.
C9_StoreKeepsOtherSeconds ==
    [][StoreSucceeds
       => /\ \A row \in dbTable :
                 (/\ row.snapshot_resource.S = dbLast'.arg[1].Resource
                  /\ row.snap_id.S # dbLast'.arg[1].ID
                  /\ row.created_at.N # Unix(dbLast'.arg[1].CreatedAt))
                 => row \in dbTable'
          /\ \E row \in dbTable' :
                 /\ row.snapshot_resource.S = dbLast'.arg[1].Resource
                 /\ row.snap_id.S = dbLast'.arg[1].ID
                 /\ row.created_at.N = Unix(dbLast'.arg[1].CreatedAt)]_vars

\* a second record of a resource was stored, with another snapshot ID and
\* another second of creation, and both records are in the table
C9_Witness ==
    /\ dbLast.op = "Store"
    /\ dbLast.err = "nil"
    /\ \E a, b \in dbTable :
           /\ a.snapshot_resource = b.snapshot_resource
           /\ a.snap_id # b.snap_id
           /\ a.created_at # b.created_at
           /\ b.snap_id.S = dbLast.arg[1].ID
           /\ b.created_at.N = Unix(dbLast.arg[1].CreatedAt)

\* the calls of the log that wrote the record the table holds for their
\* key: no later call of the log has the same resource and second
LiveStores ==
    {k \in DOMAIN dbLog :
        /\ dbLog[k].op = "Store"
        /\ \A j \in DOMAIN dbLog :
               j > k => \/ dbLog[j].arg.Resource # dbLog[k].arg.Resource
                        \/ Unix(dbLog[j].arg.CreatedAt)
                               # Unix(dbLog[k].arg.CreatedAt)}

\* the live records of the resource created at or after t minus 2 days
InWindow(resource, t) ==
    {k \in LiveStores :
        /\ dbLog[k].arg.Resource = resource
        /\ SecLeq(Unix(Minus(t, Hours(2 * 24))), Unix(dbLog[k].arg.CreatedAt))}

\* C10: when the query succeeds, GetLatestSnapshotInfo(r) returns a record
\* exactly if r has a stored record created at or after now minus 2 days,
\* and the record returned is the one of r with the greatest creation
\* second among those, with the resource, snapshot ID and labels stored
\* and the creation time at second precision.
C10_LatestInWindow ==
    (dbLast.op = "Get" /\ dbLast.err # "aws")
    => LET window == InWindow(dbLast.arg, dbLast.at)
       IN  /\ dbLast.err = "nil" <=> window # {}
           /\ window # {}
              => \E k \in window :
                     /\ \A j \in window :
                            SecLeq(Unix(dbLog[j].arg.CreatedAt),
                                   Unix(dbLog[k].arg.CreatedAt))
                     /\ dbLast.info
                          = Ptr([Resource  |-> dbLast.arg,
                                 ID        |-> dbLog[k].arg.ID,
                                 CreatedAt |-> TruncSecond(dbLog[k].arg.CreatedAt),
                                 Labels    |-> dbLog[k].arg.Labels])

\* a record was returned although the resource's older record was stored
\* after it, and a record created at the start of the window was returned
C10_Witness ==
    /\ dbLast.op = "Get"
    /\ dbLast.err = "nil"
    /\ \E j, k \in InWindow(dbLast.arg, dbLast.at) :
           /\ j > k
           /\ ~SecLeq(Unix(dbLog[k].arg.CreatedAt), Unix(dbLog[j].arg.CreatedAt))
           /\ dbLast.info[1].ID = dbLog[k].arg.ID
           /\ dbLast.info[1].ID # dbLog[j].arg.ID

\* the step is a GetLatestSnapshotInfo whose Query was answered
GetAnswered ==
    /\ dbCalls' = dbCalls + 1
    /\ dbLast'.op = "Get"
    /\ dbLast'.err # "aws"

\* C11: GetLatestSnapshotInfo(r) returns the error "No items found" and no
\* record whenever no stored record of r was created at or after now minus
\* 2 days (in epoch seconds, the precision of the store), whether or not r
\* has older records; the call leaves the table unchanged.
C11_NotFoundOutsideWindow ==
    [][GetAnswered
       => /\ dbTable' = dbTable
          /\ InWindow(dbLast'.arg, dbLast'.at) = {}
             => /\ dbLast'.err = "No items found"
                /\ dbLast'.info = NIL]_vars

\* the call returned the not-found error although the table holds a record
\* of the resource, an older one
C11_Witness ==
    /\ dbLast.op = "Get"
    /\ dbLast.err = "No items found"
    /\ dbLast.info = NIL
    /\ \E row \in dbTable :
           /\ row.snapshot_resource.S = dbLast.arg
           /\ ~SecLeq(lookback(dbLast.at), row.created_at.N)

(***************************************************************************)
(* Properties of the Lightsail manager                                     *)
(***************************************************************************)
LsDeleteRequested(snapshot) ==
    \E i \in DOMAIN lsReqs :
        /\ lsReqs[i].api = "DeleteInstanceSnapshot"
        /\ lsReqs[i].InstanceSnapshotName = snapshot.Name

\* the conditions of C4 for the snapshot, at the clock reading t
LsEligible(snapshot, t) ==
    /\ snapshot.FromInstanceName = Ptr(lsmgr.instance)
    /\ HasSuffix(snapshot.Name[1], lsmgr.suffix)
    /\ snapshot.CreatedAt # NIL
    /\ ~Before(t, Plus(snapshot.CreatedAt[1], lsRetention))

\* C4: in a Prune call whose listing succeeded, a listed snapshot gets a delete
\* request if and only if it is of the manager's instance, its name ends
\* with the suffix, its creation time is set and the clock reading at which
\* Prune examines it is at or after the creation time plus the retention.
C4_LightsailDeletesExactlyExpired ==
    /\ \A k \in DOMAIN lsSeen :
           LsDeleteRequested(lsSeen[k].snap)
           <=> LsEligible(lsSeen[k].snap, lsSeen[k].at)
    /\ \A k \in DOMAIN lsListed :
           LsDeleteRequested(lsListed[k])
           => \E j \in DOMAIN lsSeen : lsSeen[j].snap = lsListed[k]
    /\ \A i \in DOMAIN lsReqs :
           lsReqs[i].api = "DeleteInstanceSnapshot"
           => \E k \in DOMAIN lsListed :
                  lsListed[k].Name = lsReqs[i].InstanceSnapshotName
    /\ (lsPc = "idle" /\ lsRet = "nil" /\ lsListed # <<>>)
       => \A k \in DOMAIN lsListed :
              \/ \E j \in DOMAIN lsSeen : lsSeen[j].snap = lsListed[k]
              \/ lsListed[k].FromInstanceName # Ptr(lsmgr.instance)
              \/ ~HasSuffix(lsListed[k].Name[1], lsmgr.suffix)

\* Prune has returned after it sent a delete request for a snapshot created
\* exactly a retention before the clock reading, and none for another
C4_Witness ==
    /\ lsPc = "idle"
    /\ lsRet = "nil"
    /\ \E k \in DOMAIN lsSeen :
           /\ lsSeen[k].snap.CreatedAt # NIL
           /\ Plus(lsSeen[k].snap.CreatedAt[1], lsRetention) = lsSeen[k].at
           /\ LsDeleteRequested(lsSeen[k].snap)
    /\ \E k \in DOMAIN lsListed : ~LsDeleteRequested(lsListed[k])

(***************************************************************************)
(* Properties of the EC2 manager                                           *)
(***************************************************************************)
Requests(api) == {i \in DOMAIN reqs : reqs[i].api = api}

\* the instants a snapshot's delete-after tag parses to (one at most, as the
\* keys of a resource are unique)
Expiries(tags) ==
    {ParseRFC3339(tags[i].Value[1]).t : i \in
        {j \in 1..Len(tags) :
            /\ tags[j].Key = Ptr(smgr.deleteAfterTag)
            /\ tags[j].Value # NIL
            /\ ~ParseRFC3339(tags[j].Value[1]).err}}

\* the snapshot's name ends with the system-owned suffix
HasOwnName(tags) ==
    \E i \in 1..Len(tags) :
        /\ tags[i].Key = Ptr(nameTag)
        /\ tags[i].Value # NIL
        /\ ~IsStamp(tags[i].Value[1])
        /\ HasSuffix(tags[i].Value[1].chars, smgr.suffix)

\* the values of the volume's tags whose key is the retention-tag name,
\* compared case-insensitively, in the order of the tags
RetentionValues(tags) ==
    LET matching == SelectSeq(tags, LAMBDA tg :
                        /\ tg.Key # NIL
                        /\ ToLower(tg.Key[1]) = ToLower(smgr.retentionTag)
                        /\ tg.Value # NIL)
    IN  [i \in 1..Len(matching) |-> matching[i].Value[1]]

\* the delete-after tag value a CreateTags request writes
WrittenDeleteAfter(req) ==
    LET i == CHOOSE j \in 1..Len(req.Tags) :
                 req.Tags[j].Key = Ptr(smgr.deleteAfterTag)
    IN  req.Tags[i].Value[1]

\* n days, exactly
Days(n) == Hours(n * 24)

\* C1: Prune sends no DeleteSnapshot request for a snapshot whose
\* delete-after tag parses to a time later than the clock reading at which
\* Prune examines it.
C1_NoDeleteBeforeExpiry ==
    \A i \in Requests("DeleteSnapshot") :
        \A e \in Expiries(reqs[i].snap.Tags) : ~After(e, reqs[i].at)

\* C2: every snapshot that Prune examines and whose delete-after tag parses
\* to a time strictly before the clock reading gets a DeleteSnapshot request
\* in that call.
C2_ExpiredAreDeleted ==
    \A k \in DOMAIN seen :
        (\E e \in Expiries(seen[k].snap.Tags) : Before(e, seen[k].at))
        => \E i \in Requests("DeleteSnapshot") :
               reqs[i].SnapshotId = seen[k].snap.SnapshotId

\* C3: Prune sends no DeleteSnapshot request for a snapshot whose name does
\* not end with the configured suffix.
C3_NoDeleteWithoutSuffix ==
    \A i \in Requests("DeleteSnapshot") : HasOwnName(reqs[i].snap.Tags)

\* C5: for a volume with a retention tag whose value parses as the integer
\* N, the delete-after tag that Snapshot writes is the creation time plus
\* exactly N days.
C5_ExactlyNDays ==
    \A i \in Requests("CreateTags") :
        LET vals == RetentionValues(reqs[i].volume.Tags)
        IN  \A k \in DOMAIN vals :
                ParseIntValue(vals[k]).err = "nil"
                => WrittenDeleteAfter(reqs[i])
                       = FormatRFC3339(Plus(reqs[i].at,
                                            Days(ParseIntValue(vals[k]).val)))

\* C6: for a volume with no retention tag (or only ones of a nil value), the
\* delete-after tag that Snapshot writes is the creation time plus the
\* default retention of 7 days.
C6_DefaultWhenAbsent ==
    \A i \in Requests("CreateTags") :
        RetentionValues(reqs[i].volume.Tags) = <<>>
        => WrittenDeleteAfter(reqs[i])
               = FormatRFC3339(Plus(reqs[i].at, Days(defaultRetentionDays)))

\* the value of the volume's retention tag does not parse as an integer
Unparseable(volume) ==
    /\ RetentionValues(volume.Tags) # <<>>
    /\ ParseIntValue(RetentionValues(volume.Tags)[1]).err # "nil"

\* the volumes fetchVolumes returns when no request fails
Listable ==
    SelectSeq(ec2Volumes, LAMBDA v :
        /\ v.VolumeId # NIL
        /\ HasTagKey(v.Tags, {smgr.backupTag, ToLower(smgr.backupTag)}))

\* C7: a retention tag value that does not parse as an integer does not
\* abort Snapshot: the delete-after tag written for that volume is the
\* creation time plus 7 days, the create-snapshot request of every volume
\* reached so far was sent (the one of that volume too), and after the last
\* volume Snapshot returns nil with one request sent for each listed volume.
C7_ParseFailureFallsBack ==
    /\ \A i \in Requests("CreateTags") :
           Unparseable(reqs[i].volume)
           => WrittenDeleteAfter(reqs[i])
                  = FormatRFC3339(Plus(reqs[i].at, Days(7)))
    /\ pc = "snapshot"
       => \A k \in 1..(vi - 1) :
              \E i \in Requests("CreateSnapshot") :
                  reqs[i].vol = k /\ reqs[i].volume = volumes[k]
    /\ (pc = "idle" /\ Requests("CreateSnapshot") # {})
       => /\ ret = "nil"
          /\ \A k \in 1..Len(Listable) :
                 \E i \in Requests("CreateSnapshot") :
                     reqs[i].vol = k /\ reqs[i].volume = Listable[k]

\* Snapshot has returned after a volume with an unparseable retention tag was
\* snapshotted and tagged and the volume after it got its request
C7_Witness ==
    /\ pc = "idle"
    /\ ret = "nil"
    /\ \E i \in Requests("CreateTags"), j \in Requests("CreateSnapshot") :
           /\ Unparseable(reqs[i].volume)
           /\ reqs[j].vol > reqs[i].vol

\* C8: the delete-after time that Snapshot writes is never earlier than the
\* creation time of the snapshot (at the precision of the tag).
C8_RetentionNotNegative ==
    \A i \in Requests("CreateTags") :
        ~Before(ParseRFC3339(WrittenDeleteAfter(reqs[i])).t,
                TruncSecond(reqs[i].at))

(***************************************************************************)
(* Properties of the restore command                                       *)
(***************************************************************************)
RestoreRequests(api) == {i \in DOMAIN rsReqs : rsReqs[i].api = api}

\* C12: a restore with both from-snapshot and from-resource unset ends
\* fatally before any request: no Query is sent to the datastore and no
\* CreateVolume to the provider at any point of that run.
C12_NoSourceIsFatal ==
    (rsPc # "none" /\ rsFlags.fromSnapshot = "" /\ rsFlags.fromResource = "")
    => /\ rsReqs = <<>>
       /\ queriesSent = 0
       /\ dbCalls = 0
       /\ rsPc \in {"parsed", "exit"}
       /\ rsPc = "exit" => rsExit = "fatal"

\* such a run has ended
C12_Witness ==
    /\ rsPc = "exit"
    /\ rsExit = "fatal"
    /\ rsFlags.fromSnapshot = ""
    /\ rsFlags.fromResource = ""
    /\ rsFlags.table # ""
    /\ dbTable # {}

\* C13: a CreateVolume request is sent only in runs where exactly one of
\* from-snapshot and from-resource is supplied.
C13_ExactlyOneSource ==
    (rsPc # "none" /\ RestoreRequests("CreateVolume") # {})
    => (rsFlags.fromSnapshot = "") # (rsFlags.fromResource = "")

(***************************************************************************)
(* Properties of the loops of the EC2 manager                              *)
(***************************************************************************)
\* the request failed: CreateSnapshot with an error or without an ID,
\* CreateTags or DeleteSnapshot with an error
Failed(req) ==
    \/ req.api = "CreateSnapshot" /\ req.result # "ok"
    \/ req.api \in {"CreateTags", "DeleteSnapshot"} /\ ~req.ok

\* C14: Snapshot is best-effort per volume: whatever CreateSnapshot and
\* CreateTags requests of earlier volumes failed, one CreateSnapshot request
\* is sent in the iteration of every volume the listing returned, in listing
\* order, and Snapshot returns nil after the last one.
C14_SnapshotBestEffort ==
    /\ pc = "snapshot"
       => /\ ret = "none"
          /\ volumes = Listable
          /\ \A k \in 1..Len(volumes) :
                 Cardinality({i \in Requests("CreateSnapshot") :
                                 reqs[i].vol = k /\ reqs[i].volume = volumes[k]})
                   = IF k < vi THEN 1 ELSE 0
    /\ \A i \in DOMAIN reqs :
           Failed(reqs[i]) /\ reqs[i].api # "DeleteSnapshot"
           => /\ ret \in {"none", "nil"}
              /\ pc = "idle"
                 => \A k \in 1..Len(Listable) :
                        \E j \in Requests("CreateSnapshot") :
                            reqs[j].vol = k /\ reqs[j].volume = Listable[k]

\* Snapshot has returned nil after the CreateSnapshot request of the first
\* volume failed and the second volume got its request
C14_Witness ==
    /\ pc = "idle"
    /\ ret = "nil"
    /\ \E i, j \in Requests("CreateSnapshot") :
           /\ reqs[i].vol = 1
           /\ reqs[i].result = "err"
           /\ reqs[j].vol = 2
           /\ j > i

(***************************************************************************)
(* Properties of both managers                                             *)
(***************************************************************************)
\* the snapshot's delete-after time is before the clock reading t
Expired(snap, t) == \E e \in Expiries(snap.Tags) : Before(e, t)

\* a DeleteSnapshot request for the snapshot failed
DeleteFailed(snap) ==
    \E i \in Requests("DeleteSnapshot") :
        reqs[i].SnapshotId = snap.SnapshotId /\ ~reqs[i].ok

\* EC2 Prune: a snapshot of the tool that has expired gets its delete request
\* although an earlier delete request of the call failed, and no error is
\* returned
Ec2FailedDeleteDoesNotAbort ==
    /\ \A j, k \in DOMAIN seen :
           (/\ j < k
            /\ DeleteFailed(seen[j].snap)
            /\ HasOwnName(seen[k].snap.Tags)
            /\ Expired(seen[k].snap, seen[k].at))
           => \E i \in Requests("DeleteSnapshot") :
                  reqs[i].SnapshotId = seen[k].snap.SnapshotId
    /\ (\E k \in DOMAIN seen : DeleteFailed(seen[k].snap))
       => ret \in {"none", "nil"}

\* a DeleteInstanceSnapshot request for the snapshot failed
LsDeleteFailed(snapshot) ==
    \E i \in DOMAIN lsReqs :
        /\ lsReqs[i].api = "DeleteInstanceSnapshot"
        /\ lsReqs[i].InstanceSnapshotName = snapshot.Name
        /\ ~lsReqs[i].ok

\* Lightsail Prune: the same
LsFailedDeleteDoesNotAbort ==
    /\ \A j, k \in DOMAIN lsSeen :
           (/\ j < k
            /\ LsDeleteFailed(lsSeen[j].snap)
            /\ LsEligible(lsSeen[k].snap, lsSeen[k].at))
           => LsDeleteRequested(lsSeen[k].snap)
    /\ (\E k \in DOMAIN lsSeen : LsDeleteFailed(lsSeen[k].snap))
       => lsRet \in {"none", "nil"}

\* C15: in both Prune implementations a failed delete request does not
\* abort pruning: every snapshot eligible for deletion that Prune examines
\* after the failure gets its delete request, and Prune returns nil.
C15_FailedDeleteDoesNotAbort ==
    /\ Ec2FailedDeleteDoesNotAbort
    /\ LsFailedDeleteDoesNotAbort

\* the snapshot has a delete-after tag, and none whose value is set and
\* parses as an RFC3339 timestamp
Unusable(snap) ==
    /\ HasTagKey(snap.Tags, {smgr.deleteAfterTag})
    /\ Expiries(snap.Tags) = {}

DeleteRequested(snap) ==
    \E i \in Requests("DeleteSnapshot") :
        reqs[i].SnapshotId = snap.SnapshotId

\* C16: Prune sends no DeleteSnapshot request for a snapshot whose
\* delete-after tag value is nil or does not parse as an RFC3339 timestamp;
\* the snapshot is skipped and Prune goes on with the next snapshot, up to
\* the last one listed, and returns nil.
C16_UnparseableIsSkipped ==
    /\ \A i \in Requests("DeleteSnapshot") : ~Unusable(reqs[i].snap)
    /\ \A k \in DOMAIN seen :
           Unusable(seen[k].snap)
           => /\ ~DeleteRequested(seen[k].snap)
              /\ seen[k].snap \in {ec2Snapshots[i] : i \in DOMAIN ec2Snapshots}
              /\ pc = "prune" => si = Len(seen) + 1 /\ snaps[k] = seen[k].snap
              /\ pc = "idle"
                 => /\ ret = "nil"
                    /\ \A i \in DOMAIN ec2Snapshots :
                           HasTagKey(ec2Snapshots[i].Tags, {smgr.deleteAfterTag})
                           => \E j \in DOMAIN seen :
                                  seen[j].snap = ec2Snapshots[i]

\* Prune has returned after it skipped a snapshot whose delete-after value
\* does not parse and sent the delete request of a snapshot after it
C16_Witness ==
    /\ pc = "idle"
    /\ ret = "nil"
    /\ \E j, k \in DOMAIN seen :
           /\ j < k
           /\ Unusable(seen[j].snap)
           /\ DeleteRequested(seen[k].snap)
    /\ \E j \in DOMAIN seen :
           \E i \in DOMAIN seen[j].snap.Tags :
               /\ seen[j].snap.Tags[i].Key = Ptr(smgr.deleteAfterTag)
               /\ seen[j].snap.Tags[i].Value # NIL
               /\ ParseRFC3339(seen[j].snap.Tags[i].Value[1]).err

\* the request i of the log is a listing request that failed; then it is the
\* last request of the call, the requests before it are the earlier pages of
\* the same listing, each asked once, and the call has returned the error
ListingAborts(log, i, returned, at) ==
    /\ i = Len(log)
    /\ \A j \in 1..(i - 1) :
           /\ log[j].api = log[i].api
           /\ log[j].ok
           /\ log[j].page = j
    /\ log[i].page = i
    /\ returned = "err"
    /\ at = "idle"

\* C17: a listing request that fails, on the first or on a later page, ends
\* the call with an error and without side effects: Snapshot of the EC2
\* manager sends no CreateSnapshot or CreateTags request, Prune of the EC2
\* and of the Lightsail manager no delete request, and the listing request
\* is not sent again.
C17_ListingFailureAborts ==
    /\ \A i \in DOMAIN reqs :
           (reqs[i].api \in {"DescribeVolumes", "DescribeSnapshots"}
            /\ ~reqs[i].ok)
           => ListingAborts(reqs, i, ret, pc)
    /\ \A i \in DOMAIN lsReqs :
           (lsReqs[i].api = "GetInstanceSnapshots" /\ ~lsReqs[i].ok)
           => ListingAborts(lsReqs, i, lsRet, lsPc)

\* Prune of the EC2 manager has returned the error of the request for the
\* second page of the snapshot listing
C17_Witness ==
    /\ pc = "idle"
    /\ ret = "err"
    /\ Len(reqs) = 2
    /\ reqs[2].api = "DescribeSnapshots"
    /\ reqs[2].page = 2
    /\ ~reqs[2].ok
    /\ Len(ec2Snapshots) = 2

\* the step is a call of Snapshot whose page requests all succeeded
VolumesFetched ==
    /\ calls' = calls + 1
    /\ reqs' # <<>>
    /\ reqs'[1].api = "DescribeVolumes"
    /\ ret' # "err"

\* the volumes the provider's filter on the backup tag lets through
Tagged ==
    SelectSeq(ec2Volumes, LAMBDA v :
        HasTagKey(v.Tags, {smgr.backupTag, ToLower(smgr.backupTag)}))

\* C18: when every page request succeeds, fetchVolumes returns exactly the
\* volumes of all pages that have an identity, in listing order; it asks
\* the pages one after the other until a response has no next token, and
\* skips the volumes without an identity without an error.
C18_FetchVolumesComplete ==
    [][VolumesFetched
       => /\ Len(reqs') = NumPages(Tagged)
          /\ \A i \in DOMAIN reqs' :
                 /\ reqs'[i].api = "DescribeVolumes"
                 /\ reqs'[i].page = i
                 /\ reqs'[i].ok
          /\ IF Listable = <<>>
             THEN pc' = "idle" /\ ret' = "nil"
             ELSE pc' = "snapshot" /\ volumes' = Listable]_vars

\* fetchVolumes has returned the volume of the first page and skipped the volume
\* of the second page, which has no identity
C18_Witness ==
    /\ pc = "snapshot"
    /\ vi = 1
    /\ Len(reqs) = 2
    /\ reqs[2].api = "DescribeVolumes"
    /\ reqs[2].ok
    /\ Len(ec2Volumes) = 2
    /\ ec2Volumes[2].VolumeId = NIL
    /\ volumes = <<ec2Volumes[1]>>

\* the snapshots of the account that carry no delete-after tag: among them
\* the ones Snapshot created and failed to tag
Untagged(world) ==
    {world[i] : i \in {j \in DOMAIN world :
                          ~HasTagKey(world[j].Tags, {smgr.deleteAfterTag})}}

\* C19: a snapshot without a delete-after tag, as one whose CreateTags
\* request failed, is never deleted by Prune, in any later call: no step
\* removes it from the account and no DeleteSnapshot request names it.
C19_UntaggedNeverPruned ==
    [][/\ Untagged(ec2Snapshots) \subseteq Untagged(ec2Snapshots')
       /\ \A i \in DOMAIN reqs' :
              reqs'[i].api = "DeleteSnapshot"
              => \A sn \in Untagged(ec2Snapshots) :
                     sn.SnapshotId # reqs'[i].SnapshotId]_vars

\* a Prune that followed the Snapshot has deleted the snapshot that was
\* tagged and has returned; the snapshot whose tagging failed is still there
C19_Witness ==
    /\ pc = "idle"
    /\ ret = "nil"
    /\ calls = 2
    /\ \E i \in Requests("DeleteSnapshot") : reqs[i].ok
    /\ \E i \in DOMAIN ec2Snapshots : ec2Snapshots[i].Tags = <<>>

(***************************************************************************)
(* Properties of the datastore: the upsert                                 *)
(***************************************************************************)
\* the row has the key of the record: its resource and its creation time in
\* epoch seconds
HasKeyOf(row, info) ==
    /\ row.snapshot_resource.S = info.Resource
    /\ row.created_at.N = Unix(info.CreatedAt)

\* the row holds the snapshot ID and the labels of the record
HoldsValueOf(row, info) ==
    /\ row.snap_id.S = info.ID
    /\ IF info.Labels = NIL THEN row.labels = [NULL |-> TRUE]
       ELSE row.labels = [M |-> info.Labels[1]]

\* C20: StoreSnapshotInfo is an idempotent upsert keyed by the resource and
\* the creation time in epoch seconds: after a store that succeeds the
\* table has exactly one row of the record's key, with the record's
\* snapshot ID and labels, every row of another key is as it was, and a
\* record that is stored a second time leaves the table as it is.
C20_StoreIsIdempotentUpsert ==
    [][StoreSucceeds
       => LET info == dbLast'.arg[1]
          IN  /\ \E row \in dbTable' :
                     /\ HasKeyOf(row, info)
                     /\ HoldsValueOf(row, info)
                     /\ \A other \in dbTable' :
                            HasKeyOf(other, info) => other = row
              /\ {row \in dbTable' : ~HasKeyOf(row, info)}
                   = {row \in dbTable : ~HasKeyOf(row, info)}
              /\ (\E row \in dbTable :
                     HasKeyOf(row, info) /\ HoldsValueOf(row, info))
                 => dbTable' = dbTable]_vars

\* a record was stored over the row of its key, which held another snapshot
\* ID, beside a row of another key; then it was stored again
C20_Witness ==
    /\ dbLast.op = "Store"
    /\ dbLast.err = "nil"
    /\ Len(dbLog) = 3
    /\ dbLog[3].arg = dbLog[2].arg
    /\ dbLog[2].arg.ID # dbLog[1].arg.ID
    /\ dbLog[2].arg.Resource = dbLog[1].arg.Resource
    /\ Unix(dbLog[2].arg.CreatedAt) = Unix(dbLog[1].arg.CreatedAt)
    /\ Cardinality(dbTable) = 1

(***************************************************************************)
(* Deleting a record                                                       *)
(***************************************************************************)
\* the step is a DeleteSnapshotInfo that succeeds
DeleteSucceeds ==
    /\ dbCalls' = dbCalls + 1
    /\ dbLast'.op = "Delete"
    /\ dbLast'.err = "nil"

\* C21: a DeleteSnapshotInfo that succeeds removes exactly the row keyed by
\* the resource and the creation time in epoch seconds of its argument and
\* leaves every other row as it was, whatever the snapshot ID of the
\* argument; when no row has that key the table is as it was.
C21_DeleteRemovesTheKeyedRow ==
    [][DeleteSucceeds
       => LET info == dbLast'.arg[1]
          IN  /\ dbTable' = {row \in dbTable : ~HasKeyOf(row, info)}
              /\ (\A row \in dbTable : ~HasKeyOf(row, info))
                 => dbTable' = dbTable]_vars

\* a record was deleted by an argument of its key that names another
\* snapshot ID, and the row of the other key stayed
C21_Witness ==
    /\ dbLast.op = "Delete"
    /\ dbLast.err = "nil"
    /\ Len(dbLog) = 3
    /\ dbLog[1].op = "Store"
    /\ dbLog[2].op = "Store"
    /\ dbLog[3].op = "Delete"
    /\ dbLog[3].arg.Resource = dbLog[1].arg.Resource
    /\ Unix(dbLog[3].arg.CreatedAt) = Unix(dbLog[1].arg.CreatedAt)
    /\ dbLog[3].arg.ID # dbLog[1].arg.ID
    /\ dbLog[2].arg.Resource = dbLog[1].arg.Resource
    /\ Unix(dbLog[2].arg.CreatedAt) # Unix(dbLog[1].arg.CreatedAt)
    /\ dbTable = {MarshalMap(item(dbLog[2].arg))}

(***************************************************************************)
(* The EC2 manager and the datastore                                       *)
(***************************************************************************)
\* C22: every EBS snapshot creation that succeeds is followed by a
\* StoreSnapshotInfo of a record of the volume, so that a restore by
\* resource finds the snapshot: once Snapshot has returned, each volume
\* whose CreateSnapshot request succeeded has a record written to the
\* datastore.
C22_SnapshotIsRecorded ==
    (EBSCommand /\ pc = "idle")
    => \A i \in Requests("CreateSnapshot") :
           reqs[i].result = "ok"
           => /\ putItemsSent > 0
              /\ \E k \in DOMAIN dbLog :
                     /\ dbLog[k].op = "Store"
                     /\ Ptr(dbLog[k].arg.Resource) = reqs[i].volume.VolumeId

(***************************************************************************)
(* The expiry of an instance snapshot                                      *)
(***************************************************************************)
\* C23: the expiry of an instance snapshot is fixed at its creation: a
\* snapshot that a Snapshot call with the retention R created gets no
\* delete request from a later Prune at a clock reading before its creation
\* time plus R, whatever the retention of the manager that prunes.
C23_ExpiryFixedAtCreation ==
    \A m \in DOMAIN lsMade :
        \A k \in DOMAIN lsSeen :
            (/\ lsSeen[k].snap.Name = lsMade[m].Name
             /\ LsDeleteRequested(lsSeen[k].snap))
            => ~Before(lsSeen[k].at,
                       Plus(lsMade[m].at, lsMade[m].retention))

(***************************************************************************)
(* No request is repeated                                                  *)
(***************************************************************************)
\* C24: nothing is retried: among the requests of one call there is at most
\* one CreateSnapshot and at most one CreateTags per listed volume, at most
\* one DeleteSnapshot per listed snapshot, at most one
\* CreateInstanceSnapshot for the instance and at most one
\* DeleteInstanceSnapshot per listed instance snapshot, whichever of the
\* requests failed.
C24_NoRetries ==
    /\ \A i, j \in Requests("CreateSnapshot") :
           reqs[i].vol = reqs[j].vol => i = j
    /\ \A i, j \in Requests("CreateTags") :
           reqs[i].vol = reqs[j].vol => i = j
    /\ \A i \in Requests("CreateSnapshot") :
           pc = "snapshot" => reqs[i].vol \in 1..Len(volumes)
    /\ \A i, j \in Requests("DeleteSnapshot") :
           reqs[i].SnapshotId = reqs[j].SnapshotId => i = j
    /\ \A i \in Requests("DeleteSnapshot") :
           \E k \in DOMAIN seen : seen[k].snap.SnapshotId = reqs[i].SnapshotId
    /\ \A i, j \in DOMAIN lsReqs :
           (/\ lsReqs[i].api = "CreateInstanceSnapshot"
            /\ lsReqs[j].api = "CreateInstanceSnapshot")
           => i = j
    /\ \A i, j \in DOMAIN lsReqs :
           (/\ lsReqs[i].api = "DeleteInstanceSnapshot"
            /\ lsReqs[j].api = "DeleteInstanceSnapshot"
            /\ lsReqs[i].InstanceSnapshotName = lsReqs[j].InstanceSnapshotName)
           => i = j

\* Prune has returned after the delete request of the first of two snapshots
\* failed: the snapshot is still there and was sent the one request
C24_Witness ==
    /\ EBSCommand
    /\ pc = "idle"
    /\ ret = "nil"
    /\ Len(seen) = 2
    /\ \E i \in Requests("DeleteSnapshot") :
           /\ ~reqs[i].ok
           /\ reqs[i].SnapshotId = seen[1].snap.SnapshotId
           /\ \E k \in DOMAIN ec2Snapshots :
                  ec2Snapshots[k].SnapshotId = reqs[i].SnapshotId
    /\ \E i \in Requests("DeleteSnapshot") :
           reqs[i].SnapshotId = seen[2].snap.SnapshotId

(***************************************************************************)
(* Properties of main's loop                                               *)
(***************************************************************************)
\* main has made the call of the manager m
MainCalled(m, call) ==
    \E k \in DOMAIN mainLog : mainLog[k].mgr = m /\ mainLog[k].call = call

\* the body of the loop is past the Prune of the manager m
PastPrune(m) == mainI > m \/ (mainI = m /\ mainPc \in {"next", "return"})

\* a step of the loop can be taken
MainStep ==
    \/ MainNext
    \/ MainSkipSnapshot
    \/ MainEbsSnapshot
    \/ MainEbsSnapshotVolume
    \/ MainLsSnapshot
    \/ MainSkipPrune
    \/ MainEbsPrune
    \/ MainEbsPruneSnapshot
    \/ MainLsPrune
    \/ MainLsPruneSnapshot

\* C25: in a run the managers are called in the order of snaps, each at
\* most once per operation and Snapshot before Prune; the Prune of a manager
\* is called also when its Snapshot returned an error; and whatever the
\* calls returned the loop goes on, so that when it ends every manager has
\* had the calls the flags allow.
C25_SnapshotThenPruneForEveryManager ==
    /\ \A i, j \in DOMAIN mainLog :
           i < j
           => /\ mainLog[i].mgr <= mainLog[j].mgr
              /\ mainLog[i].mgr = mainLog[j].mgr
                 => (mainLog[i].call = "Snapshot" /\ mainLog[j].call = "Prune")
    /\ \A k \in DOMAIN mainLog :
           (/\ mainLog[k].call = "Snapshot"
            /\ mainLog[k].ret = "err"
            /\ PastPrune(mainLog[k].mgr)
            /\ ~rsFlags.disablePrune)
           => MainCalled(mainLog[k].mgr, "Prune")
    /\ mainPc = "return"
       => \A m \in 1..Len(mainSnaps) :
              /\ ~rsFlags.disableSnapshot => MainCalled(m, "Snapshot")
              /\ ~rsFlags.disablePrune => MainCalled(m, "Prune")
    /\ mainPc \notin {"none", "return"} => ENABLED MainStep

\* the loop over two Lightsail managers has ended: the Snapshot of the first
\* returned an error, its Prune was called and returned an error, and the
\* second manager had both calls
C25_Witness ==
    /\ mainPc = "return"
    /\ Len(mainSnaps) = 2
    /\ Len(mainLog) = 4
    /\ mainLog[1] = [mgr |-> 1, call |-> "Snapshot", ret |-> "err"]
    /\ mainLog[2] = [mgr |-> 1, call |-> "Prune", ret |-> "err"]
    /\ mainLog[3].mgr = 2
    /\ mainLog[3].call = "Snapshot"
    /\ mainLog[4].mgr = 2
    /\ mainLog[4].call = "Prune"

(***************************************************************************)
(* A run of the EC2 manager: Snapshot, then Prune                          *)
(***************************************************************************)
\* the snapshot is in the account
Exists(id) == \E k \in DOMAIN ec2Snapshots : ec2Snapshots[k].SnapshotId = id

\* C26: a snapshot that Snapshot created and tagged with a retention of at
\* least one day is not deleted by the Prune of the same run: when the loop
\* of a run has ended before the retention of such a snapshot has passed,
\* the snapshot is still in the account.  The retentions looked at are of
\* one to seven days, which the delete-after tag holds without overflow.
C26_FreshSnapshotSurvivesPrune ==
    (EBSCommand /\ mainPc = "return")
    => \A m \in DOMAIN ec2Made :
           (/\ ec2Made[m].tagged
            /\ ec2Made[m].days >= 1
            /\ ec2Made[m].days <= 7
            /\ Before(now, Plus(ec2Made[m].at, Days(ec2Made[m].days))))
           => Exists(ec2Made[m].SnapshotId)

(***************************************************************************)
(* The tagging request of Snapshot                                         *)
(***************************************************************************)
\* the IDs of the snapshots of a world
SnapshotIds(world) == {world[k].SnapshotId : k \in DOMAIN world}

\* the step is an iteration of the loop of Snapshot
SnapshotIteration == pc = "snapshot" /\ reqs' # reqs

\* C27: in an iteration of Snapshot the CreateTags request is sent only
\* after the CreateSnapshot request of the volume succeeded and returned an
\* ID; it names that ID as its one resource and carries the name tag and the
\* delete-after tag and no other; when CreateSnapshot fails or returns no ID
\* the iteration sends no CreateTags request.
C27_TaggingFollowsCreation ==
    [][SnapshotIteration
       => LET sent == SubSeq(reqs', Len(reqs) + 1, Len(reqs'))
              new  == SnapshotIds(ec2Snapshots') \ SnapshotIds(ec2Snapshots)
          IN  /\ sent[1].api = "CreateSnapshot"
              /\ sent[1].vol = vi
              /\ IF sent[1].result = "ok"
                 THEN /\ Len(sent) = 2
                      /\ sent[2].api = "CreateTags"
                      /\ sent[2].vol = vi
                      /\ Len(sent[2].Resources) = 1
                      /\ sent[2].Resources[1] # NIL
                      /\ new = {sent[2].Resources[1]}
                      /\ Len(sent[2].Tags) = 2
                      /\ sent[2].Tags[1].Key = Ptr(nameTag)
                      /\ sent[2].Tags[2].Key = Ptr(smgr.deleteAfterTag)
                 ELSE /\ Len(sent) = 1
                      /\ new = {}]_vars

\* Snapshot has returned: the first volume's CreateSnapshot came back without
\* an ID and the volume has no CreateTags request, the second volume's
\* succeeded and its snapshot was tagged
C27_Witness ==
    /\ pc = "idle"
    /\ ret = "nil"
    /\ \E i \in Requests("CreateSnapshot") :
           /\ reqs[i].vol = 1
           /\ reqs[i].result = "nilid"
           /\ Len(reqs) = i + 2
           /\ reqs[i + 1].api = "CreateSnapshot"
           /\ reqs[i + 1].vol = 2
           /\ reqs[i + 1].result = "ok"
           /\ reqs[i + 2].api = "CreateTags"
           /\ reqs[i + 2].vol = 2
           /\ reqs[i + 2].ok

(***************************************************************************)
(* Pruning and the datastore                                               *)
(***************************************************************************)
\* the step is one of Prune, of either manager: the listing, or an
\* iteration of the loop over the snapshots
PruneStep ==
    \/ calls' = calls + 1 /\ reqs'[1].api = "DescribeSnapshots"
    \/ pc = "prune" /\ seen' # seen
    \/ lsCalls' = lsCalls + 1 /\ lsReqs'[1].api = "GetInstanceSnapshots"
    \/ lsPc = "prune" /\ lsSeen' # lsSeen

\* C28: no step of EC2 Prune or of Lightsail Prune changes the datastore:
\* every record stays as it is and no request goes to the table, so the
\* record of a snapshot that Prune deleted is still there for
\* GetLatestSnapshotInfo to return.
C28_PruneLeavesTheRecords ==
    [][PruneStep
       => /\ dbTable' = dbTable
          /\ UNCHANGED <<putItemsSent, queriesSent, deletesSent>>]_vars

\* Prune deleted a snapshot and GetLatestSnapshotInfo then returned the
\* record of that snapshot
C28_Witness ==
    /\ EBSCommand
    /\ dbLast.op = "Get"
    /\ dbLast.err = "nil"
    /\ ~Exists(Ptr(dbLast.info[1].ID))
    /\ \E i \in Requests("DeleteSnapshot") :
           /\ reqs[i].ok
           /\ reqs[i].SnapshotId = Ptr(dbLast.info[1].ID)
           /\ Before(reqs[i].at, dbLast.at)

(***************************************************************************)
(* Restore by resource                                                     *)
(***************************************************************************)
\* C29: in a restore with from-resource, a CreateVolume request is sent only
\* after GetLatestSnapshotInfo answered for that resource without error, and
\* its snapshot is the ID of the record returned; when no table is
\* configured or the lookup fails, the run ends fatally without a
\* CreateVolume request.
C29_RestoreByResourceUsesTheRecord ==
    rsFlags.cmd = "restore ebs" /\ rsFlags.fromResource # ""
    => /\ \A i \in RestoreRequests("CreateVolume") :
              /\ rsFlags.table # ""
              /\ dbLast.op = "Get"
              /\ dbLast.arg = rsFlags.fromResource
              /\ dbLast.err = "nil"
              /\ rsReqs[i].input.SnapshotId = Ptr(dbLast.info[1].ID)
       /\ (/\ rsPc # "parsed"
           /\ rsFlags.table = "" \/ (dbLast.op = "Get" /\ dbLast.err # "nil"))
          => /\ rsPc = "exit"
             /\ rsExit = "fatal"
             /\ RestoreRequests("CreateVolume") = {}
       /\ rsFlags.table = "" => dbLast.op = "none" /\ queriesSent = 0

\* a restore of vol-1, by resource alone, has sent CreateVolume with the
\* snapshot of the latest of the two records of vol-1
C29_Witness ==
    /\ rsPc = "exit"
    /\ rsExit = "return"
    /\ rsFlags.fromResource = "vol-1"
    /\ rsFlags.fromSnapshot = ""
    /\ Cardinality({r \in dbTable : r.snapshot_resource.S = "vol-1"}) = 2
    /\ \E i \in RestoreRequests("CreateVolume") :
           rsReqs[i].input.SnapshotId = Ptr("snap-b")

(***************************************************************************)
(* The CreateVolume request and the options                                *)
(***************************************************************************)
\* the options the restore manager of the run was built with
OptionsGiven ==
    IF rsFlags.cmd = "restore ebs" THEN restoreOptions(rsFlags)
    ELSE OptionsOf(rsFlags.opts)

\* the value of the last of the options of that name, if there is one
LastOf(opts, name) ==
    LET at == {i \in DOMAIN opts : opts[i].with = name}
    IN  IF at = {} THEN NIL
        ELSE Ptr(opts[CHOOSE i \in at : \A j \in at : j <= i].v)

NilInfoCall ==
    /\ dbCalls' = dbCalls + 1
    /\ dbLast'.op \in {"Store", "Delete"}
    /\ dbLast'.arg = NIL

\* a step that is a call of New with a nil client
NilClientCall ==
    /\ dbDs' # dbDs
    /\ dbLast'.op = "New"
    /\ dbLast'.arg = NIL

C31_NilIsRefusedBeforeAnyRequest ==
    [][/\ NilInfoCall
          => /\ dbLast'.err \notin {"nil", "none"}
             /\ dbTable' = dbTable
             /\ dbLog' = dbLog
             /\ UNCHANGED <<putItemsSent, queriesSent, deletesSent>>
       /\ NilClientCall
          => /\ dbDs'.err \notin {"nil", "none"}
             /\ dbDs'.ds = NIL]_vars

\* a datastore that holds a row and has sent a put and a delete was given
\* nil to delete
C31_Witness ==
    /\ dbDs.ds # NIL
    /\ dbLast.op = "Delete"
    /\ dbLast.arg = NIL
    /\ dbLast.err = "info is nil"
    /\ dbTable # {}
    /\ putItemsSent = 1
    /\ deletesSent = 1

(***************************************************************************)
(* C32: the gauge completionTime is set and pushed only at the end of a    *)
(* snapshot run in which every call of Snapshot and of Prune returned      *)
(* without error, and never by a restore run or a run that ended fatally.  *)
(***************************************************************************)
\* the gauge was set, or a push was made
CompletionRecorded == completionTime # Hours(0) \/ pushed # <<>>

\* the run is a snapshot run at its end, and none of its calls failed
CompletedWithoutError ==
    /\ EBSCommand \/ LightsailCommand
    /\ mainPc = "return"
    /\ rsExit # "fatal"
    /\ \A k \in DOMAIN mainLog : mainLog[k].ret = "nil"

C32_CompletionOnlyAfterSuccess == CompletionRecorded => CompletedWithoutError

(***************************************************************************)
(* C33: with disable-snapshot set a snapshot run sends no request that     *)
(* creates or tags a snapshot; with disable-prune set it sends no request  *)
(* that lists or deletes snapshots; and each flag leaves the other phase   *)
(* alone: when the run ends, every manager has had the call the other flag *)
(* allows, once, and none of the call that is disabled.                    *)
(***************************************************************************)
\* the requests of the run that have one of the names
Sent(apis) ==
    {i \in DOMAIN reqs : reqs[i].api \in apis}
      \cup {i \in DOMAIN lsReqs : lsReqs[i].api \in apis}

CreatingRequests == {"CreateSnapshot", "CreateTags", "CreateInstanceSnapshot"}

PruningRequests ==
    {"DescribeSnapshots", "DeleteSnapshot", "GetInstanceSnapshots",
     "DeleteInstanceSnapshot"}

\* how many times main called the operation of manager m
CallsOf(m, call) ==
    Cardinality({k \in DOMAIN mainLog :
                   mainLog[k].mgr = m /\ mainLog[k].call = call})

C33_DisabledPhaseSendsNothing ==
    /\ rsFlags.disableSnapshot => Sent(CreatingRequests) = {}
    /\ rsFlags.disablePrune => Sent(PruningRequests) = {}
    /\ mainPc = "return"
       => \A m \in 1..Len(mainSnaps) :
              /\ CallsOf(m, "Snapshot") = IF rsFlags.disableSnapshot THEN 0 ELSE 1
              /\ CallsOf(m, "Prune") = IF rsFlags.disablePrune THEN 0 ELSE 1

\* a run over two Lightsail managers with disable-snapshot set has ended:
\* nothing was created, and the pruning listed and deleted
C33_Witness ==
    /\ mainPc = "return"
    /\ LightsailCommand
    /\ rsFlags.disableSnapshot
    /\ ~rsFlags.disablePrune
    /\ Len(mainSnaps) = 2
    /\ Len(mainLog) = 2
    /\ \E i, j \in DOMAIN lsReqs :
           /\ lsReqs[i].api = "GetInstanceSnapshots"
           /\ lsReqs[j].api = "DeleteInstanceSnapshot"

(***************************************************************************)
(* C34: every snapshot run terminates.  The listings of the model end      *)
(* after finitely many pages; then, whatever requests fail, the loop over  *)
(* snaps comes to its end, and by then every call of Snapshot and of Prune *)
(* that main made has returned.                                            *)
(***************************************************************************)
\* main is past the loop and no call is still running
RunEnded ==
    /\ mainPc = "return"
    /\ pc = "idle"
    /\ lsPc = "idle"
    /\ \A k \in DOMAIN mainLog : mainLog[k].ret \in {"nil", "err"}

C34_EverySnapshotRunTerminates == <>RunEnded

\* a run over two Lightsail managers has ended: the Snapshot of the first
\* failed, and the Prune of the second listed two pages and had a delete
\* fail
C34_Witness ==
    /\ RunEnded
    /\ LightsailCommand
    /\ Len(mainSnaps) = 2
    /\ Len(mainLog) = 4
    /\ mainLog[1].ret = "err"
    /\ \E i \in DOMAIN lsReqs :
           lsReqs[i].api = "GetInstanceSnapshots" /\ lsReqs[i].page = 2
    /\ \E j \in DOMAIN lsReqs :
           lsReqs[j].api = "DeleteInstanceSnapshot" /\ ~lsReqs[j].ok

====
